---------------------------- MODULE Spec2Model ----------------------------
(***************************************************************************)
(* Clause mining engine of RijkswaterstaatDataQualityRuleMiner: the index  *)
(* cache, assertions and clause bodies, the generation forest, the minimal *)
(* image-based support / confidence computation and the breadth-first      *)
(* generate / explore / extend search, sequential and parallel.            *)
(*                                                                         *)
(* The repository holds two generations of the engine.  `version` selects  *)
(* which one a behaviour runs:                                             *)
(*   "v1"  src/sequential.py with src/metrics.py                           *)
(*   "v2"  src/mkgfd/sequential.py with src/cckg/metrics.py                *)
(* generate_mp (src/parallel.py, src/mkgfd/parallel.py) seeds its forest   *)
(* with new_clause and new_variable_clause and so runs the "v2" engine.    *)
(***************************************************************************)
EXTENDS Integers, Sequences, FiniteSets, TLC

VARIABLES
    g,          \* the graph: a set of triples <<subject, predicate, object>>
    version,    \* which generation of the engine runs
    params,     \* the arguments of generate / generate_mp
    body,       \* metrics machine: the ClauseBody under evaluation
    head,       \* metrics machine: the head assertion under evaluation
    eval,       \* metrics machine: the last evaluation and what it returned;
                \* tree machine: the last call on the tree and what it raised
    forest,     \* the GenerationForest: type -> GenerationTree
    gen,        \* the locals of generate / generate_mp and where it stands
    mp,         \* the worker pool of generate_mp: tasks and results in flight
    hist        \* what the run explored so far and what the last step
                \* evaluated, pruned, dropped and added

vars == <<g, version, params, body, head, eval, forest, gen, mp, hist>>

metricsVars == <<body, head, eval>>
searchVars == <<forest, gen, mp, hist>>

-----------------------------------------------------------------------------
(* Bounds of the model *)

MaxTriples == 3      \* triples in a graph
MaxBody == 3         \* assertions in a body of the metrics machine
MaxMinSupport == 2   \* largest min_support / min_confidence tried
MaxGenTriples == 4   \* triples in a graph the search runs over
MaxDepth == 2        \* largest depths.stop
MaxLengthBody == 3   \* largest max_length_body
MaxWidth == 2        \* largest max_width
MaxProc == 2         \* most worker processes of a pool
MaxTreeDepth == 2     \* largest depth a call on a tree is given
MaxTreeSize == 4      \* largest size a tree is grown to
MaxWideBody == 6     \* largest max_length_body tried over the wide graphs
MaxDeep == 3          \* largest bound of a range of depths that begins late
\* a limit no body reaches: stands for max_length_body and max_width unset
Unbounded == 64

-----------------------------------------------------------------------------
(* The universe the graphs are drawn from *)

Persons == {"e1", "e2", "e3"}
Cities == {"c1", "c2"}
Literals == {"l1"}
Entities == Persons \cup Cities
Types == {"Person", "City"}

IDENTITY == "identity"

TripleUniverse ==
    { <<"e1", "knows", "e2">>, <<"e1", "knows", "e3">>, <<"e2", "knows", "c1">>,
      <<"e1", "lives", "c1">>, <<"c1", "near", "c2">>, <<"e1", "name", "l1">> }

Graphs == {G \in SUBSET TripleUniverse : Cardinality(G) <= MaxTriples}

Versions == {"v1", "v2"}

-----------------------------------------------------------------------------
(* Cache: the derived indices *)

\* object_type_map['object-to-type'][r]; a resource never typed resolves to
\* a default that equals no type
object_to_type(r) ==
    IF r \in Persons THEN "Person" ELSE IF r \in Cities THEN "City" ELSE "none"

\* object_type_map['type-to-object'][t]
type_to_object(t) == {e \in Entities : object_to_type(e) = t}

\* data_type_map['object-to-type'][r]
data_to_type(r) == IF r \in Literals THEN "xsd_string" ELSE "none"

\* predicate_map[p]['forwards'][e]; a missing key resolves to the empty set
forwards(p, e) == {t[3] : t \in {u \in g : u[1] = e /\ u[2] = p}}

\* predicate_map[p]['forwards'].keys()
forwards_keys(p) == {t[1] : t \in {u \in g : u[2] = p}}

\* predicate_map[p]['backwards'][r]
backwards(p, r) == {t[1] : t \in {u \in g : u[2] = p /\ u[3] = r}}

-----------------------------------------------------------------------------
(* Assertions and type variables *)

Resource(r) == [kind |-> "res", val |-> r]
ObjectTypeVariable(t) == [kind |-> "otv", val |-> t]
DataTypeVariable(t) == [kind |-> "dtv", val |-> t]

\* isinstance(x, TypeVariable)
IsTypeVariable(x) == x.kind \in {"otv", "dtv"}

\* Assertion(subject, predicate, object) with its instantiation token; the
\* subject is always the ObjectTypeVariable of a type, kept as the type
Assertion(t, p, o, u) == [lhs |-> t, predicate |-> p, rhs |-> o, uuid |-> u]

IdentityAssertion(t, u) ==
    Assertion(t, IDENTITY, ObjectTypeVariable(t), u)

IsIdentity(a) == a.predicate = IDENTITY

-----------------------------------------------------------------------------
(* ClauseBody *)

\* ClauseBody(identity): connections, distances and the reverse distance map
NewClauseBody(identity) ==
    [ identity |-> identity,
      connections |-> (identity :> {}),
      distances |-> (0 :> {identity}),
      distances_reverse |-> (identity :> 0) ]

\* ClauseBody.extend as it would be were the distance of the endpoint not
\* read: every extension at distance 1
BodyExtendFlat(b, endpoint, extension) ==
    [ identity |-> b.identity,
      connections |-> (extension :> {})
                      @@ [b.connections EXCEPT ![endpoint] = @ \cup {extension}],
      distances |->
         IF 1 \in DOMAIN b.distances
         THEN [b.distances EXCEPT ![1] = @ \cup {extension}]
         ELSE (1 :> {extension}) @@ b.distances,
      distances_reverse |-> (extension :> 1) @@ b.distances_reverse ]

\* ClauseBody.extend(endpoint, extension)
BodyExtendOp(b, endpoint, extension) ==
    LET distance == b.distances_reverse[endpoint] + 1
        conn1 == [b.connections EXCEPT ![endpoint] = @ \cup {extension}]
    IN [ identity |-> b.identity,
         connections |-> (extension :> {}) @@ conn1,
         distances |->
            IF distance \in DOMAIN b.distances
            THEN [b.distances EXCEPT ![distance] = @ \cup {extension}]
            ELSE (distance :> {extension}) @@ b.distances,
         distances_reverse |-> (extension :> distance) @@ b.distances_reverse ]

\* ClauseBody.copy() as it would be were the dicts copied and the sets they
\* hold not
ClauseBodyShallowCopy(b) == [body |-> b, shared |-> {"connections", "distances"}]

\* ClauseBody.copy(): a new body over new dicts that hold new sets of the
\* same assertions; `shared` names the sets the copy holds in common with
\* the body it was taken from
ClauseBodyCopy(b) == [body |-> b, shared |-> {}]

\* the body a copy was taken from, once extend has run on the copy: a set
\* the two hold in common is written for both, a key is added to the dicts
\* of the copy only
WrittenThrough(b, shared, endpoint, extension) ==
    LET distance == b.distances_reverse[endpoint] + 1
    IN [ b EXCEPT
           !.connections = IF "connections" \in shared
                           THEN [@ EXCEPT ![endpoint] = @ \cup {extension}]
                           ELSE @,
           !.distances = IF "distances" \in shared /\ distance \in DOMAIN @
                         THEN [@ EXCEPT ![distance] = @ \cup {extension}]
                         ELSE @ ]

\* len(body)
BodyLen(b) == Cardinality(DOMAIN b.connections)

\* the orders in which a set may be iterated: rankings of its members
Rankings(S) ==
    {f \in [S -> 1..Cardinality(S)] : \A x, y \in S : x # y => f[x] # f[y]}

\* the orders in which the connections of a body may be iterated
BodyOrders(b) == Rankings(DOMAIN b.connections \ {b.identity})

\* the orders in which a set of entities may be iterated; the model's cities
\* never compete for a place, so only the persons are permuted
EntityOrders ==
    {rk @@ [c \in Cities |-> IF c = "c1" THEN 4 ELSE 5] : rk \in Rankings(Persons)}

RECURSIVE OrderBy(_, _)
OrderBy(S, rk) ==
    IF S = {} THEN <<>>
    ELSE LET x == CHOOSE y \in S : \A z \in S : rk[y] <= rk[z]
         IN <<x>> \o OrderBy(S \ {x}, rk)

-----------------------------------------------------------------------------
(* Minimal image-based support and confidence *)

\* the forward-adjacent resources of entity e that satisfy assertion a
Matches(a, e) ==
    IF a.rhs.kind = "res"
    THEN {r \in forwards(a.predicate, e) : r = a.rhs.val}
    ELSE IF a.rhs.kind = "otv"
    THEN {r \in forwards(a.predicate, e) : object_to_type(r) = a.rhs.val}
    ELSE {r \in forwards(a.predicate, e) : data_to_type(r) = a.rhs.val}

\* the entities of a domain that satisfy assertion a
Satisfying(a, dom) == {e \in dom : Matches(a, e) # {}}

\* the number of (entity, resource) pairs counted by a loop that adds one
\* for every matching resource of every entity
PairCount(a, dom) ==
    Cardinality({er \in dom \X (Entities \cup Literals) : er[2] \in Matches(a, er[1])})

\* src/metrics.py confidence_of: a bound object counts once per entity, a
\* type variable once per matching resource
confidence_of(assertion, assertion_domain) ==
    [ confidence |-> IF assertion.rhs.kind = "res"
                     THEN Cardinality(Satisfying(assertion, assertion_domain))
                     ELSE PairCount(assertion, assertion_domain),
      domain |-> Satisfying(assertion, assertion_domain) ]

\* src/cckg/metrics.py confidence_of: every branch leaves the resource loop
\* at the first match
confidence_of_mkgfd(assertion, assertion_domain) ==
    [ confidence |-> Cardinality(Satisfying(assertion, assertion_domain)),
      domain |-> Satisfying(assertion, assertion_domain) ]

\* what support_of hands back: the pair it returns, and `arg`, the members
\* of the caller's domain set once the call is over
Returns(s, d, a) == [support |-> s, domain |-> d, arg |-> a]

\* the range of a non-identity assertion with an object type variable
RangeOf(a, dom) ==
    UNION {{r \in forwards(a.predicate, e) : object_to_type(r) = a.rhs.val} : e \in dom}

\* the domain side of a range, through the backward adjacency
DomainOf(a, rng) == UNION {backwards(a.predicate, r) : r \in rng}

RECURSIVE SumBackwards(_, _)
SumBackwards(a, rng) ==
    IF rng = {} THEN 0
    ELSE LET r == CHOOSE x \in rng : TRUE
         IN Cardinality(backwards(a.predicate, r)) + SumBackwards(a, rng \ {r})

\* src/metrics.py support_of, first loop: the length test comes before the
\* intersection
RECURSIVE PreFilter(_, _, _)
PreFilter(conns, rng, min_support) ==
    IF conns = <<>> THEN [abort |-> FALSE, range |-> rng]
    ELSE IF Cardinality(rng) < min_support THEN [abort |-> TRUE, range |-> rng]
    ELSE PreFilter(Tail(conns), rng \cap forwards_keys(Head(conns).predicate),
                   min_support)

\* src/cckg/metrics.py support_of, first loop: the length test comes after
RECURSIVE PreFilter_mkgfd(_, _, _)
PreFilter_mkgfd(conns, rng, min_support) ==
    IF conns = <<>> THEN [abort |-> FALSE, range |-> rng]
    ELSE IF Cardinality(rng \cap forwards_keys(Head(conns).predicate)) < min_support
    THEN [abort |-> TRUE, range |-> rng \cap forwards_keys(Head(conns).predicate)]
    ELSE PreFilter_mkgfd(Tail(conns), rng \cap forwards_keys(Head(conns).predicate),
                         min_support)

\* src/metrics.py support_of on a leaf as it would be were the sentinel
\* handed back when no entity satisfies the assertion
LeafSentinel(assertion, assertion_domain) ==
    IF IsIdentity(assertion)
    THEN Returns(Cardinality(assertion_domain), assertion_domain, assertion_domain)
    ELSE IF Satisfying(assertion, assertion_domain) = {}
    THEN Returns(-1, {}, assertion_domain)
    ELSE Returns(IF assertion.rhs.kind = "res"
                 THEN Cardinality(Satisfying(assertion, assertion_domain))
                 ELSE PairCount(assertion, assertion_domain),
                 Satisfying(assertion, assertion_domain),
                 assertion_domain)

\* src/metrics.py support_of on a leaf: the identity hands back the domain it
\* was given, a bound object counts once per entity, a type variable once
\* per matching resource
Leaf(assertion, assertion_domain) ==
    IF IsIdentity(assertion)
    THEN Returns(Cardinality(assertion_domain), assertion_domain, assertion_domain)
    ELSE Returns(IF assertion.rhs.kind = "res"
                 THEN Cardinality(Satisfying(assertion, assertion_domain))
                 ELSE PairCount(assertion, assertion_domain),
                 Satisfying(assertion, assertion_domain),
                 assertion_domain)

\* src/metrics.py support_of, after the loops: red is the range the loops
\* left, or the sign that one of them gave up.  The identity's range is the
\* caller's set, not a copy of it, so the caller's set ends as the range.
SupportResult(assertion, assertion_domain, red) ==
    IF red.abort
    THEN Returns(-1, {}, IF IsIdentity(assertion) THEN red.range ELSE assertion_domain)
    ELSE IF IsIdentity(assertion)
    THEN Returns(Cardinality(red.range), red.range, red.range)
    ELSE Returns(SumBackwards(assertion, red.range),
                 DomainOf(assertion, red.range),
                 assertion_domain)

RECURSIVE support_of(_, _, _, _, _)
RECURSIVE Reduce(_, _, _, _, _)

\* src/metrics.py support_of, second loop, one connection evaluated to r
ReduceStep(graph_pattern, conns, rng, min_support, rk, r) ==
    IF r.support < min_support THEN [abort |-> TRUE, range |-> rng]
    ELSE Reduce(graph_pattern, Tail(conns), rng \cap r.domain, min_support, rk)

\* src/metrics.py support_of, second loop: connection_domain is the range
\* itself, so every child is evaluated over the range as reduced so far
Reduce(graph_pattern, conns, rng, min_support, rk) ==
    IF conns = <<>> THEN [abort |-> FALSE, range |-> rng]
    ELSE IF Cardinality(rng) < min_support THEN [abort |-> TRUE, range |-> rng]
    ELSE ReduceStep(graph_pattern, conns, rng, min_support, rk,
                    support_of(graph_pattern, Head(conns), rng, min_support, rk))

\* src/metrics.py support_of, the second loop after the first
Loops(graph_pattern, conns, pre, min_support, rk) ==
    IF pre.abort THEN pre
    ELSE Reduce(graph_pattern, conns, pre.range, min_support, rk)

\* src/metrics.py support_of.  rk is the order in which the sets of
\* connections are iterated.
support_of(graph_pattern, assertion, assertion_domain, min_support, rk) ==
    IF graph_pattern.connections[assertion] = {}
    THEN Leaf(assertion, assertion_domain)
    ELSE SupportResult(assertion, assertion_domain,
            Loops(graph_pattern,
                  OrderBy(graph_pattern.connections[assertion], rk),
                  PreFilter(OrderBy(graph_pattern.connections[assertion], rk),
                            IF IsIdentity(assertion) THEN assertion_domain
                            ELSE RangeOf(assertion, assertion_domain),
                            min_support),
                  min_support, rk))

\* src/cckg/metrics.py support_of, leaf with an object type variable: the
\* test of `satisfied` sits in the entity loop, so the loop over the domain
\* ends at the first entity that has a matching resource; erk is the order
\* in which the domain is iterated
LeafObjectType_mkgfd(assertion, assertion_domain, erk) ==
    LET sat == Satisfying(assertion, assertion_domain)
    IN IF sat = {} THEN Returns(0, {}, assertion_domain)
       ELSE LET e == CHOOSE x \in sat : \A y \in sat : erk[x] <= erk[y]
            IN Returns(Cardinality(Matches(assertion, e)), {e}, assertion_domain)

\* src/cckg/metrics.py support_of on a leaf
Leaf_mkgfd(assertion, assertion_domain, erk) ==
    IF IsIdentity(assertion)
    THEN Returns(Cardinality(assertion_domain), assertion_domain, assertion_domain)
    ELSE IF assertion.rhs.kind = "otv"
    THEN LeafObjectType_mkgfd(assertion, assertion_domain, erk)
    ELSE Returns(Cardinality(Satisfying(assertion, assertion_domain)),
                 Satisfying(assertion, assertion_domain),
                 assertion_domain)

\* src/cckg/metrics.py support_of, after the loops: the domain given is
\* never written to
SupportResult_mkgfd(assertion, assertion_domain, red) ==
    IF red.abort THEN Returns(-1, {}, assertion_domain)
    ELSE IF IsIdentity(assertion)
    THEN Returns(Cardinality(red.range), red.range, assertion_domain)
    ELSE Returns(Cardinality(DomainOf(assertion, red.range)),
                 DomainOf(assertion, red.range),
                 assertion_domain)

RECURSIVE support_of_mkgfd(_, _, _, _, _, _)
RECURSIVE Reduce_mkgfd(_, _, _, _, _, _)

\* src/cckg/metrics.py support_of, second loop, one connection evaluated to r
ReduceStep_mkgfd(graph_pattern, conns, rng, min_support, rk, erk, r) ==
    IF r.support < min_support THEN [abort |-> TRUE, range |-> rng]
    ELSE IF Cardinality(rng \cap r.domain) < min_support
    THEN [abort |-> TRUE, range |-> rng \cap r.domain]
    ELSE Reduce_mkgfd(graph_pattern, Tail(conns), rng \cap r.domain,
                      min_support, rk, erk)

\* src/cckg/metrics.py support_of, second loop
Reduce_mkgfd(graph_pattern, conns, rng, min_support, rk, erk) ==
    IF conns = <<>> THEN [abort |-> FALSE, range |-> rng]
    ELSE ReduceStep_mkgfd(graph_pattern, conns, rng, min_support, rk, erk,
            support_of_mkgfd(graph_pattern, Head(conns), rng, min_support, rk, erk))

\* src/cckg/metrics.py support_of, the second loop after the first
Loops_mkgfd(graph_pattern, conns, pre, min_support, rk, erk) ==
    IF pre.abort THEN pre
    ELSE Reduce_mkgfd(graph_pattern, conns, pre.range, min_support, rk, erk)

\* src/cckg/metrics.py support_of
support_of_mkgfd(graph_pattern, assertion, assertion_domain, min_support, rk, erk) ==
    IF graph_pattern.connections[assertion] = {}
    THEN Leaf_mkgfd(assertion, assertion_domain, erk)
    ELSE SupportResult_mkgfd(assertion, assertion_domain,
            Loops_mkgfd(graph_pattern,
                        OrderBy(graph_pattern.connections[assertion], rk),
                        PreFilter_mkgfd(OrderBy(graph_pattern.connections[assertion], rk),
                                        IF IsIdentity(assertion) THEN assertion_domain
                                        ELSE RangeOf(assertion, assertion_domain),
                                        min_support),
                        min_support, rk, erk))

-----------------------------------------------------------------------------
(* The vocabulary of a type: the assertions init_generation_forest builds   *)
(* heads from, one per predicate-object pair of the type's members, bound   *)
(* or generalised to the object's type                                      *)

HeadObjects(o) ==
    {Resource(o)}
    \cup (IF o \in Entities THEN {ObjectTypeVariable(object_to_type(o))} ELSE {})
    \cup (IF o \in Literals THEN {DataTypeVariable(data_to_type(o))} ELSE {})

Vocabulary(t) ==
    UNION {{Assertion(t, u[2], o, 0) : o \in HeadObjects(u[3])} :
           u \in {w \in g : object_to_type(w[1]) = t}}

\* Assertion.copy(): the same triple under a fresh token
CopyAssertion(a, u) == Assertion(a.lhs, a.predicate, a.rhs, u)

-----------------------------------------------------------------------------
(* Clause, GenerationTree and GenerationForest *)

\* a transient set that was cleared (set to None)
None == {"None"}

NoHead == Assertion("none", "none", Resource("none"), 0)

\* Clause(head=True, body={}): the shared parent of the depth-0 clauses; its
\* support is the class attribute, 0
RootParent == [body |-> NewClauseBody(NoHead), support |-> 0]

\* a Clause with its statistics set; the probabilities are kept as the pair
\* <<numerator, denominator>> of the division that computes them; of the
\* parent the clause keeps what is read through it later
Clause(head_, body_, parent, support, confidence, pfreq, satisfy_body, satisfy_full) ==
    [ head |-> head_,
      body |-> body_,
      parent |-> [body |-> parent.body, support |-> parent.support],
      support |-> support,
      confidence |-> confidence,
      domain_probability |-> <<confidence, support>>,
      range_probability |-> <<confidence, pfreq>>,
      _prune |-> FALSE,
      _satisfy_body |-> satisfy_body,
      _satisfy_full |-> satisfy_full ]

\* GenerationTree(): no levels, no vertices
GenerationTree == [_tree |-> <<>>, height |-> 0, size |-> 0]

\* a test of the depth that lets the first depth past the next level through
AddRaisesLate(tree, depth) == depth > tree.height + 1

\* the depths at which GenerationTree.add and update raise IndexError
AddRaises(tree, depth) == depth > tree.height

\* the depths at which GenerationTree.rmv, clear and get raise IndexError
GetRaises(tree, depth) == depth >= tree.height

\* GenerationTree.get(depth), depth >= 0
TreeGet(tree, depth) == tree._tree[depth + 1]

\* GenerationTree.update(clauses, depth): the level is appended when it is
\* the next one, then every clause is added and counted
TreeUpdate(tree, clauses, depth) ==
    LET levels == IF tree.height <= depth THEN Append(tree._tree, {})
                  ELSE tree._tree
    IN [ _tree |-> [levels EXCEPT ![depth + 1] = @ \cup clauses],
         height |-> Len(levels),
         size |-> tree.size + Cardinality(clauses) ]

\* GenerationTree.add(clause, depth)
TreeAdd(tree, clause, depth) == TreeUpdate(tree, {clause}, depth)

\* GenerationTree.prune(clauses, depth): rmv of every clause
TreePrune(tree, clauses, depth) ==
    [ tree EXCEPT !._tree[depth + 1] = @ \ clauses,
                  !.size = @ - Cardinality(clauses) ]

\* GenerationTree.clear(depth)
TreeClear(tree, depth) ==
    [ tree EXCEPT !._tree[depth + 1] = {},
                  !.size = @ - Cardinality(tree._tree[depth + 1]) ]

\* GenerationForest(): no trees
NoForest == [t \in {} |-> GenerationTree]

\* GenerationForest.types()
ForestTypes(f) == DOMAIN f

\* GenerationForest.plant(ctype, tree)
Plant(f, ctype, tree) == (ctype :> tree) @@ f

\* every clause of a forest, whatever its tree and depth
ForestClauses(f) ==
    UNION {UNION {f[t]._tree[d] : d \in 1..Len(f[t]._tree)} : t \in DOMAIN f}

\* the clauses of a forest at one depth
ForestLevel(f, depth) ==
    UNION {IF depth < f[t].height THEN TreeGet(f[t], depth) ELSE {} : t \in DOMAIN f}

\* a clause as an object: two clauses of a run never share head and body
Key(clause) == <<clause.head, clause.body>>

\* generate has not been called
NoGen ==
    [ pc |-> "off", depth |-> 0, types |-> <<>>, ti |-> 0, ord |-> "fwd",
      todo |-> <<>>, derivatives |-> {}, prune_set |-> {},
      mode_skip_dict |-> [t \in {} |-> {}], npruned |-> 0 ]

\* no pool: generate_mp has not been called.  Of a pool, `queue` holds the
\* chunks of tasks not yet taken by a worker, `results` what workers have
\* returned and generate_mp has not yet gathered, `handed` what the workers
\* of the level at hand were given
NoPool == [nproc |-> 0, queue |-> <<>>, results |-> {}, handed |-> {}]

\* nothing evaluated, explored, pruned or added yet; `alt` holds, of the
\* first call of explore whose surviving clauses depend on the order of
\* iteration, the survivors under the order of the run (of the worker, in a
\* pool) and under the other (that of the process that runs generate);
\* `tops`, `recursions` and `nested` hold, of the last call of explore,
\* what its calls of extend returned, what its recursive calls were given
\* and what the recursive calls of extend were given
NoHist ==
    [ step |-> "none", explored |-> {}, calls |-> {}, pruned |-> {},
      dropped |-> {}, added |-> {}, alt |-> {}, tops |-> {}, recursions |-> {},
      nested |-> {} ]

-----------------------------------------------------------------------------
(* The metrics machine: bodies grown by ClauseBody.extend, evaluated by     *)
(* support_of and confidence_of                                             *)

NoEval ==
    [ op |-> "none", fn |-> "none", root |-> 0, dom |-> {}, min_support |-> 0,
      first |-> Returns(0, {}, {}), second |-> Returns(0, {}, {}) ]

NoParams == [min_support |-> 0]

InitMetrics ==
    /\ g \in Graphs
    /\ version = "v1"
    /\ params = NoParams
    /\ \E t \in Types : body = NewClauseBody(IdentityAssertion(t, 0))
    /\ head = NoHead
    /\ eval = NoEval
    /\ forest = NoForest
    /\ gen = NoGen
    /\ mp = NoPool
    /\ hist = NoHist

\* the candidate domains an assertion is evaluated over: any set of members
\* of the type for the identity, none or all of them further down
Domains(b, root) ==
    IF root = b.identity THEN SUBSET type_to_object(root.lhs)
    ELSE {{}, type_to_object(root.lhs)}

\* what `body = parent.body.copy(); body.extend(...)` leaves behind: nothing
\* evaluated yet, the parent's body as it was before the copy was taken
\* (`before`) and as it is after the copy was extended (`after`)
Extended_(before, after) ==
    [ op |-> "none", fn |-> "extend", root |-> 0, dom |-> {}, min_support |-> 0,
      first |-> Returns(0, {}, {}), second |-> Returns(0, {}, {}),
      before |-> before, after |-> after ]

\* body.extend(endpoint, extension) on a copy of the body at hand
ExtendCopy(copy, endpoint, extension) ==
    /\ body' = BodyExtendOp(copy.body, endpoint, extension)
    /\ eval' = Extended_(body, WrittenThrough(body, copy.shared, endpoint, extension))

\* src/sequential.py extend, `body = parent.body.copy()` and `body.extend(
\* endpoint=pendant_incident, extension=candidate_extension.copy())`, on a
\* copy of a vocabulary assertion, from an endpoint whose right-hand side is
\* an object type variable
MExtend ==
    /\ BodyLen(body) < MaxBody
    /\ \E endpoint \in DOMAIN body.connections :
         /\ endpoint.rhs.kind = "otv"
         /\ \E c \in Vocabulary(endpoint.rhs.val) :
              ExtendCopy(ClauseBodyCopy(body), endpoint,
                         CopyAssertion(c, BodyLen(body)))
    /\ UNCHANGED <<g, version, params, head, searchVars>>

\* what two calls in a row leave behind
Evaluated(fn, root, dom, ms, r1, r2) ==
    [ op |-> "support_of", fn |-> fn, root |-> root, dom |-> dom,
      min_support |-> ms, first |-> r1, second |-> r2 ]

\* the second of two calls of src/metrics.py support_of on one domain set: it
\* sees the set as the first call left it
Again(root, dom, ms, rk, r1) ==
    Evaluated("v1", root, dom, ms, r1, support_of(body, root, r1.arg, ms, rk))

\* two calls in a row of src/metrics.py support_of on one domain set
MSupport ==
    /\ eval.op = "none"
    /\ \E root \in DOMAIN body.connections, ms \in 1..MaxMinSupport,
          rk \in BodyOrders(body) :
         \E dom \in Domains(body, root) :
            eval' = Again(root, dom, ms, rk, support_of(body, root, dom, ms, rk))
    /\ UNCHANGED <<g, version, params, body, head, searchVars>>

Again_mkgfd(root, dom, ms, rk, erk, r1) ==
    Evaluated("v2", root, dom, ms, r1,
              support_of_mkgfd(body, root, r1.arg, ms, rk, erk))

\* two calls in a row of src/cckg/metrics.py support_of on one domain set
MSupport_mkgfd ==
    /\ eval.op = "none"
    /\ \E root \in DOMAIN body.connections, ms \in 1..MaxMinSupport,
          rk \in BodyOrders(body), erk \in EntityOrders :
         \E dom \in Domains(body, root) :
            eval' = Again_mkgfd(root, dom, ms, rk, erk,
                                support_of_mkgfd(body, root, dom, ms, rk, erk))
    /\ UNCHANGED <<g, version, params, body, head, searchVars>>

\* what a call of confidence_of leaves behind
Confided(fn, h, dom, r) ==
    [ op |-> "confidence_of", fn |-> fn, root |-> h, dom |-> dom,
      min_support |-> 0,
      first |-> Returns(r.confidence, r.domain, dom),
      second |-> Returns(r.confidence, r.domain, dom) ]

\* confidence_of of either generation on a head of the root type's
\* vocabulary; it does not read the body, so it is applied before the body
\* is grown
MConfidence ==
    /\ eval.op = "none"
    /\ BodyLen(body) = 1
    /\ \E h \in Vocabulary(body.identity.lhs), fn \in Versions :
         \E dom \in SUBSET type_to_object(body.identity.lhs) :
            /\ head' = h
            /\ eval' = Confided(fn, h, dom,
                                IF fn = "v1" THEN confidence_of(h, dom)
                                ELSE confidence_of_mkgfd(h, dom))
    /\ UNCHANGED <<g, version, params, body, searchVars>>

NextMetrics == MExtend \/ MSupport \/ MSupport_mkgfd \/ MConfidence

SpecMetrics == InitMetrics /\ [][NextMetrics]_vars

-----------------------------------------------------------------------------
(* The search: shared helpers *)

\* the graphs the search runs over
GenTriples ==
    { <<"e1", "knows", "e2">>, <<"e1", "knows", "e3">>, <<"e2", "knows", "e3">>,
      <<"e1", "lives", "c1">>, <<"e2", "lives", "c1">>, <<"c1", "near", "c2">> }

\* every graph holds the edge the others are added around
GenGraphs ==
    {G \in SUBSET GenTriples : /\ Cardinality(G) <= MaxGenTriples
                               /\ <<"e1", "knows", "e2">> \in G}

\* mode is a two-letter string: mode[0] rules the heads, mode[1] the bodies;
\* it is kept as the pair of its letters, so mode[0] is Mode[1] here
Modes == {<<"A", "A">>, <<"A", "T">>, <<"T", "A">>, <<"T", "T">>}

\* the orders in which a run iterates its sets: one fixed order, or its
\* reverse
Orders == {"fwd", "rev"}

Flip(ord) == IF ord = "fwd" THEN "rev" ELSE "fwd"

RECURSIVE SetToSeq(_)
SetToSeq(S) ==
    IF S = {} THEN <<>>
    ELSE LET x == CHOOSE y \in S : TRUE IN <<x>> \o SetToSeq(S \ {x})

Reverse(seq) == [i \in 1..Len(seq) |-> seq[Len(seq) + 1 - i]]

\* `for x in S` under an iteration order
Iter(S, ord) == IF ord = "fwd" THEN SetToSeq(S) ELSE Reverse(SetToSeq(S))

\* the rank of every member of S under an iteration order
RankOf(S, ord) ==
    LET seq == Iter(S, ord)
    IN [x \in S |-> CHOOSE i \in 1..Len(seq) : seq[i] = x]

\* utils.isEquivalent: same left-hand type, same predicate, and right-hand
\* sides that are identical, or a type variable on one side whose type is the
\* type of the value on the other side
TypeMatches(var, val) ==
    \/ var.kind = "otv" /\ val.kind = "res" /\ object_to_type(val.val) = var.val
    \/ var.kind = "dtv" /\ val.kind = "res" /\ data_to_type(val.val) = var.val

\* isEquivalent as it would be were the type of a concrete value looked up
\* for the second argument only
isEquivalentOneWay(a, b) ==
    /\ a.lhs = b.lhs
    /\ a.predicate = b.predicate
    /\ \/ a.rhs = b.rhs
       \/ TypeMatches(a.rhs, b.rhs)

isEquivalent(a, b) ==
    /\ a.lhs = b.lhs
    /\ a.predicate = b.predicate
    /\ \/ a.rhs = b.rhs
       \/ TypeMatches(a.rhs, b.rhs)
       \/ TypeMatches(b.rhs, a.rhs)

\* utils.predicate_frequency: the members of the domain for which the head's
\* predicate is defined at all
predicate_frequency(head_, satisfies_body) ==
    Cardinality({e \in satisfies_body : forwards(head_.predicate, e) # {}})

-----------------------------------------------------------------------------
(* init_generation_forest *)

\* predicate_object_map.keys() of a type
PredicatesOf(t) == {u[2] : u \in {w \in g : w[1] \in type_to_object(t)}}

\* predicate_object_map[p].keys()
ObjectsOf(t, p) ==
    {u[3] : u \in {w \in g : w[1] \in type_to_object(t) /\ w[2] = p}}

\* pfreq = sum(predicate_object_map[p].values())
PredicateCount(t, p) ==
    Cardinality({w \in g : w[1] \in type_to_object(t) /\ w[2] = p})

\* {e for e in class_instance_map['type-to-object'][t] if (e, p, o) in g}
Having(t, p, o) == {e \in type_to_object(t) : <<e, p, o>> \in g}

\* object_types_map and data_types_map: the type variables a predicate's
\* objects generalise to
TypeVariablesOf(t, p) ==
    {ObjectTypeVariable(object_to_type(o)) : o \in ObjectsOf(t, p) \cap Entities}
    \cup {DataTypeVariable(data_to_type(o)) : o \in ObjectsOf(t, p) \cap Literals}

\* object_types_map[ctype] / data_types_map[dtype]
types_map(t, p, var) ==
    UNION {Having(t, p, o) :
           o \in {x \in ObjectsOf(t, p) :
                    \/ var.kind = "otv" /\ x \in Entities /\ object_to_type(x) = var.val
                    \/ var.kind = "dtv" /\ x \in Literals /\ data_to_type(x) = var.val}}

DepthZeroBody(t) == NewClauseBody(IdentityAssertion(t, 0))

\* src/sequential.py init_generation_forest, a clause with a bound object:
\* the clauses it adds to the tree
InitClause(t, p, o, min_confidence) ==
    LET phi == Clause(Assertion(t, p, Resource(o), 0), DepthZeroBody(t), RootParent,
                      Cardinality(type_to_object(t)),
                      Cardinality(Having(t, p, o)),
                      PredicateCount(t, p),
                      type_to_object(t), Having(t, p, o))
    IN IF phi.confidence >= min_confidence THEN {phi} ELSE {}

\* src/sequential.py init_generation_forest, a clause with a type variable
InitVariableClause(t, p, var, min_confidence) ==
    LET phi == Clause(Assertion(t, p, var, 0), DepthZeroBody(t), RootParent,
                      Cardinality(type_to_object(t)),
                      Cardinality(types_map(t, p, var)),
                      PredicateCount(t, p),
                      type_to_object(t), types_map(t, p, var))
    IN IF phi.confidence >= min_confidence THEN {phi} ELSE {}

\* src/mkgfd/sequential.py new_clause: the clause, or nothing for None
new_clause(t, p, o, min_confidence) ==
    LET full == Having(t, p, o)
    IN IF Cardinality(full) < min_confidence THEN {}
       ELSE {Clause(Assertion(t, p, Resource(o), 0), DepthZeroBody(t), RootParent,
                    Cardinality(type_to_object(t)), Cardinality(full),
                    PredicateCount(t, p), type_to_object(t), full)}

\* src/mkgfd/sequential.py new_variable_clause: _satisfy_full and confidence
\* are taken from the members of the class, _satisfy_body and support from
\* the members that have an object of the variable's type
new_variable_clause(t, p, var, min_confidence) ==
    LET full == type_to_object(t)
        satisfy_body == types_map(t, p, var)
    IN IF Cardinality(full) < min_confidence THEN {}
       ELSE {Clause(Assertion(t, p, var, 0), DepthZeroBody(t), RootParent,
                    Cardinality(satisfy_body), Cardinality(full),
                    PredicateCount(t, p), satisfy_body, full)}

\* the clauses init_generation_forest adds to the tree of one type
init_generation_tree(ver, t, P) ==
    LET preds == {p \in PredicatesOf(t) : PredicateCount(t, p) >= P.min_support}
        generate_Abox_heads == P.mode # <<"T", "T">>
        generate_Tbox_heads == P.mode # <<"A", "A">>
        abox == UNION {UNION {IF ver = "v1"
                              THEN InitClause(t, p, o, P.min_confidence)
                              ELSE new_clause(t, p, o, P.min_confidence) :
                              o \in ObjectsOf(t, p)} : p \in preds}
        tbox == UNION {UNION {IF ver = "v1"
                              THEN InitVariableClause(t, p, var, P.min_confidence)
                              ELSE new_variable_clause(t, p, var, P.min_confidence) :
                              var \in TypeVariablesOf(t, p)} : p \in preds}
    IN (IF generate_Abox_heads THEN abox ELSE {})
       \cup (IF generate_Tbox_heads THEN tbox ELSE {})

\* init_generation_forest: a tree is planted for every type with enough
\* members and at least one clause
PlantAll(trees) ==
    [t \in {x \in DOMAIN trees : trees[x] # {}} |->
        TreeUpdate(GenerationTree, trees[t], 0)]

init_generation_forest(ver, P) ==
    PlantAll([t \in {x \in Types : Cardinality(type_to_object(x)) >= P.min_support} |->
                 init_generation_tree(ver, t, P)])

-----------------------------------------------------------------------------
(* extend and explore.  ctx holds what both pass down unchanged: the engine *)
(* `ver`, the `depth`, the parameters `P` and the iteration order `ord`.    *)
(* Both are modelled at p_explore = p_extend = 1.0: nothing is sampled out. *)

\* what extend and explore hand back: the clauses, and (for the record) the
\* calls of support_of that were made on the way and, of every recursive
\* call of extend, the candidates the caller had been given and those it
\* passed on
NoClauses == [clauses |-> {}, calls |-> {}, nested |-> {}]

\* extend as it would be were a candidate tested against the head only
SkippedForHead(ctx, parent, candidate_extension) ==
    ctx.depth = 0 /\ isEquivalent(parent.head, candidate_extension)

\* extend, the tests that pass over a candidate before it is evaluated
Skipped(ctx, parent, candidate_extension) ==
    \/ ctx.depth = 0 /\ isEquivalent(parent.head, candidate_extension)
    \/ /\ (ctx.depth + 1) \in DOMAIN parent.body.distances
       /\ \E assertion \in parent.body.distances[ctx.depth + 1] :
             isEquivalent(assertion, candidate_extension)

\* extend as it would be were support_of given every member of the type and
\* not the parent's domain
SupportOverMembers(ctx, body_, parent) ==
    IF ctx.ver = "v1"
    THEN support_of(body_, body_.identity, type_to_object(body_.identity.lhs),
                    ctx.P.min_support, RankOf(DOMAIN body_.connections, ctx.ord))
    ELSE support_of_mkgfd(body_, body_.identity, type_to_object(body_.identity.lhs),
                          ctx.P.min_support, RankOf(DOMAIN body_.connections, ctx.ord),
                          RankOf(Entities, ctx.ord))

\* extend: support_of on the new body over the parent's domain
Support(ctx, body_, parent) ==
    IF ctx.ver = "v1"
    THEN support_of(body_, body_.identity, parent._satisfy_body,
                    ctx.P.min_support, RankOf(DOMAIN body_.connections, ctx.ord))
    ELSE support_of_mkgfd(body_, body_.identity, parent._satisfy_body,
                          ctx.P.min_support, RankOf(DOMAIN body_.connections, ctx.ord),
                          RankOf(Entities, ctx.ord))

\* extend: confidence_of on the head over the domain that satisfies the body
Confidence(ctx, head_, satisfies_body) ==
    IF ctx.ver = "v1" THEN confidence_of(head_, satisfies_body)
    ELSE confidence_of_mkgfd(head_, satisfies_body)

\* extend, one candidate, evaluated to support s and confidence c
Outcome(ctx, candidate_extension, body_, s, c) ==
    [ candidate |-> candidate_extension,
      body |-> body_,
      support |-> s.support,
      satisfies_body |-> s.domain,
      confidence |-> c.confidence,
      satisfies_full |-> c.domain,
      accepted |-> /\ s.support >= ctx.P.min_support
                   /\ c.confidence >= ctx.P.min_confidence ]

Supported(ctx, parent, candidate_extension, body_, s) ==
    Outcome(ctx, candidate_extension, body_, s,
            Confidence(ctx, parent.head, s.domain))

Extended(ctx, parent, candidate_extension, body_) ==
    Supported(ctx, parent, candidate_extension, body_, Support(ctx, body_, parent))

\* extend, one candidate: the body, its support and its confidence
Evaluate(ctx, parent, pendant_incident, candidate_extension) ==
    Extended(ctx, parent, candidate_extension,
             BodyExtendOp(parent.body, pendant_incident,
                          CopyAssertion(candidate_extension, BodyLen(parent.body))))

\* extend, an accepted candidate: the new clause with its statistics and its
\* delayed-pruning mark
ExtendedClause(e, parent) ==
    [ Clause(parent.head, e.body, parent, e.support, e.confidence,
             predicate_frequency(parent.head, e.satisfies_body),
             e.satisfies_body, e.satisfies_full)
      EXCEPT !._prune = (e.support >= parent.support) ]

\* the call of support_of behind an evaluation
CallOf(e, parent) ==
    [ parent_support |-> parent.support, parent_domain |-> parent._satisfy_body,
      support |-> e.support, domain |-> e.satisfies_body ]

Merge(a, b) ==
    [ clauses |-> a.clauses \cup b.clauses, calls |-> a.calls \cup b.calls,
      nested |-> a.nested \cup b.nested ]

MergeAll(R) ==
    [ clauses |-> UNION {r.clauses : r \in R}, calls |-> UNION {r.calls : r \in R},
      nested |-> UNION {r.nested : r \in R} ]

\* a recursive call of extend, on record with what it returned
Nested(had, given, r) == [r EXCEPT !.nested = @ \cup {[had |-> had, given |-> given]}]

RECURSIVE extend(_, _, _, _, _)
RECURSIVE ExtendEach(_, _, _, _, _, _, _)

\* extend as it would be were a new clause extended further whatever the
\* length of its body
ExtendEachAnyLength(ctx, pendant_incident, order, clause_extension_map, candidate_extensions, width, had) ==
    IF order = <<>> THEN NoClauses
    ELSE Merge(Nested(had, candidate_extensions \ {Head(order)},
                      extend(ctx, clause_extension_map[Head(order)], pendant_incident,
                             candidate_extensions \ {Head(order)}, width + 1)),
               ExtendEach(ctx, pendant_incident, Tail(order), clause_extension_map,
                          candidate_extensions \ {Head(order)}, width, had))

\* extend as it would be were the extension of a new clause not discarded
\* from the candidates of the clauses after it
ExtendEachUndiscarded(ctx, pendant_incident, order, clause_extension_map, candidate_extensions, width, had) ==
    IF order = <<>> THEN NoClauses
    ELSE Merge(IF BodyLen(clause_extension_map[Head(order)].body) >= ctx.P.max_length_body
               THEN NoClauses
               ELSE Nested(had, candidate_extensions \ {Head(order)},
                           extend(ctx, clause_extension_map[Head(order)], pendant_incident,
                                  candidate_extensions \ {Head(order)}, width + 1)),
               ExtendEach(ctx, pendant_incident, Tail(order), clause_extension_map,
                          candidate_extensions, width, had))

\* extend as it would be were the extension of a new clause left among the
\* candidates the recursive call on that clause is given
ExtendEachKeepingOwn(ctx, pendant_incident, order, clause_extension_map, candidate_extensions, width, had) ==
    IF order = <<>> THEN NoClauses
    ELSE Merge(IF BodyLen(clause_extension_map[Head(order)].body) >= ctx.P.max_length_body
               THEN NoClauses
               ELSE Nested(had, candidate_extensions,
                           extend(ctx, clause_extension_map[Head(order)], pendant_incident,
                                  candidate_extensions, width + 1)),
               ExtendEach(ctx, pendant_incident, Tail(order), clause_extension_map,
                          candidate_extensions \ {Head(order)}, width, had))

\* extend, second loop: every new clause is extended by the candidates that
\* are left once its own extension, and those of the clauses before it, have
\* been discarded; `had` is the set of candidates the call at hand was given
ExtendEach(ctx, pendant_incident, order, clause_extension_map, candidate_extensions, width, had) ==
    IF order = <<>> THEN NoClauses
    ELSE Merge(IF BodyLen(clause_extension_map[Head(order)].body) >= ctx.P.max_length_body
               THEN NoClauses
               ELSE Nested(had, candidate_extensions \ {Head(order)},
                           extend(ctx, clause_extension_map[Head(order)], pendant_incident,
                                  candidate_extensions \ {Head(order)}, width + 1)),
               ExtendEach(ctx, pendant_incident, Tail(order), clause_extension_map,
                          candidate_extensions \ {Head(order)}, width, had))

\* extend, from the end of the first loop on: evals holds what the first
\* loop found for every candidate it evaluated
Extensions(ctx, parent, pendant_incident, candidate_extensions, width, evals) ==
    LET accepted == {e \in evals : e.accepted}
        unsupported_extensions == {e.candidate : e \in evals \ accepted}
        clause_extension_map ==
            [c \in {e.candidate : e \in accepted} |->
                ExtendedClause(CHOOSE e \in accepted : e.candidate = c, parent)]
    IN Merge([ clauses |-> {ExtendedClause(e, parent) : e \in accepted},
               calls |-> {CallOf(e, parent) : e \in evals},
               nested |-> {} ],
             ExtendEach(ctx, pendant_incident,
                        Iter({e.candidate : e \in accepted}, ctx.ord),
                        clause_extension_map,
                        candidate_extensions \ unsupported_extensions, width,
                        candidate_extensions))

\* extend(g, parent, pendant_incident, candidate_extensions, ..., _width)
extend(ctx, parent, pendant_incident, candidate_extensions, width) ==
    IF width >= ctx.P.max_width THEN NoClauses
    ELSE Extensions(ctx, parent, pendant_incident, candidate_extensions, width,
                    {Evaluate(ctx, parent, pendant_incident, c) :
                       c \in {x \in candidate_extensions : ~Skipped(ctx, parent, x)}})

\* explore: the heads of the depth-0 clauses of the incident's type, limited
\* by mode[1] to bound objects or to type variables
Candidates(f, pendant_incident, mode) ==
    {h \in {c.head : c \in TreeGet(f[pendant_incident.rhs.val], 0)} :
        /\ ~(mode[2] = "A" /\ IsTypeVariable(h.rhs))
        /\ ~(mode[2] = "T" /\ ~IsTypeVariable(h.rhs))}

\* src/mkgfd/sequential.py explore: of the extensions that share support and
\* confidence all are marked for pruning, but for the single one with the
\* fewest assertions on the incident
ScoreSets(extensions, pendant_incident) ==
    LET score_set(x) == {y \in extensions : y.support = x.support
                                            /\ y.confidence = x.confidence}
        n(x) == Cardinality(x.body.connections[pendant_incident])
        extension_parents(x) == {y \in score_set(x) : \A z \in score_set(x) : n(y) <= n(z)}
        marked(x) == /\ Cardinality(score_set(x)) >= 2
                     /\ extension_parents(x) # {x}
    IN {IF marked(x) THEN [x EXCEPT !._prune = TRUE] ELSE x : x \in extensions}

\* explore, first loop, one pendant incident: what extend returns, with the
\* marks of the later engine
Marked(ctx, pendant_incident, r) ==
    IF ctx.ver = "v2"
    THEN [r EXCEPT !.clauses = ScoreSets(r.clauses, pendant_incident)]
    ELSE r

\* the last of the incidents, in the order of iteration, that is in a set
LastOf(order, S) ==
    order[CHOOSE i \in 1..Len(order) :
            /\ order[i] \in S
            /\ \A j \in (i + 1)..Len(order) : order[j] \notin S]

RECURSIVE explore(_, _, _, _)

\* explore, second loop: every new clause is explored from the incidents
\* that are left
Deeper(ctx, f, extended_clauses, left) ==
    {explore(ctx, f, ec, left) :
       ec \in {x \in extended_clauses : BodyLen(x.body) < ctx.P.max_length_body}}

\* what explore hands back: the clauses and the calls of support_of, and
\* (for the record) what every top-level call of extend returned and what
\* every recursive call of explore was given
Traced(base, tops, recursions) ==
    [ clauses |-> base.clauses, calls |-> base.calls, nested |-> base.nested,
      tops |-> tops, recursions |-> recursions ]

\* explore on a clause too long to be explored: nothing
Unexplored == Traced(NoClauses, {}, {})

\* the calls `extend(g, clause, pendant_incident, candidate_extensions, ..., 0)`
\* of explore's first loop: the incident and the bodies of the clauses
\* returned
TopsOf(extensions) ==
    {[incident |-> pi, bodies |-> {c.body : c \in extensions[pi].clauses}] :
        pi \in DOMAIN extensions}

\* the calls `explore(g, generation_forest, extended_clause, {pi for pi in
\* pendant_incidents}, ...)` of explore's second loop: the clause, the
\* incident it was extended from, the incidents handed over, the incidents
\* the call at hand was given (`had`) and the incidents for which extend had
\* returned nothing in the first loop
RecursionsOf(P, extensions, supported, left, had) ==
    UNION {{[from |-> pi, clause |-> Key(ec), given |-> left, had |-> had,
             failed |-> DOMAIN extensions \ supported] :
              ec \in {x \in extensions[pi].clauses :
                        BodyLen(x.body) < P.max_length_body}} : pi \in supported}

\* explore, the second loop over: what the first loop gathered (`here`) and
\* what the recursive calls returned (`deeper`)
Recursed(P, extensions, here, supported, left, deeper, had) ==
    Traced(Merge(here, MergeAll(deeper)),
           TopsOf(extensions) \cup UNION {r.tops : r \in deeper},
           RecursionsOf(P, extensions, supported, left, had)
           \cup UNION {r.recursions : r \in deeper})

\* explore as it would be were the unsupported incidents not taken out
LeftWithUnsupported(ctx, pendant_incidents_, unsupported_incidents, supported) ==
    pendant_incidents_ \ {LastOf(Iter(pendant_incidents_, ctx.ord), supported)}

\* the incidents left for the recursive calls: clause_incident_map maps
\* every clause gathered so far anew to the incident at hand, so all clauses
\* end on the last supported incident, which is the one discarded
Left(ctx, pendant_incidents_, unsupported_incidents, supported) ==
    (pendant_incidents_ \ unsupported_incidents)
    \ {LastOf(Iter(pendant_incidents_, ctx.ord), supported)}

\* explore, from the end of the first loop on
Explored(ctx, f, pendant_incidents_, extensions) ==
    LET unsupported_incidents == {pi \in DOMAIN extensions : extensions[pi].clauses = {}}
        supported == DOMAIN extensions \ unsupported_incidents
        extended_clauses == UNION {extensions[pi].clauses : pi \in supported}
        calls == UNION {extensions[pi].calls : pi \in DOMAIN extensions}
        nested == UNION {extensions[pi].nested : pi \in DOMAIN extensions}
    IN IF supported = {}
       THEN Traced([clauses |-> {}, calls |-> calls, nested |-> nested],
                   TopsOf(extensions), {})
       ELSE Recursed(ctx.P, extensions,
                     [clauses |-> extended_clauses, calls |-> calls, nested |-> nested],
                     supported,
                     Left(ctx, pendant_incidents_, unsupported_incidents, supported),
                     Deeper(ctx, f, extended_clauses,
                            Left(ctx, pendant_incidents_, unsupported_incidents,
                                 supported)),
                     pendant_incidents_)

\* explore(g, generation_forest, clause, pendant_incidents, depth, ...)
explore(ctx, f, clause, pendant_incidents_) ==
    Explored(ctx, f, pendant_incidents_,
             [pi \in {x \in pendant_incidents_ : x.rhs.val \in ForestTypes(f)} |->
                 Marked(ctx, pi, extend(ctx, clause, pi, Candidates(f, pi, ctx.P.mode), 0))])

-----------------------------------------------------------------------------
(* generate: one step per clause of a level, one per end of a type's level  *)

\* depths is range(start, stop)
DepthRanges ==
    {r \in [start : 0..(MaxDepth - 1), stop : 1..MaxDepth] : r.start < r.stop}

InDepths(depth, depths) == depths.start <= depth /\ depth < depths.stop

\* the arguments of generate; a max_width of max_length_body or more acts as
\* max_length_body - 1 does, and under a max_length_body of 1 no clause is
\* extended, whatever max_width is
ParamSpace ==
    {P \in [ min_support : 1..MaxMinSupport,
             min_confidence : 1..MaxMinSupport,
             mode : Modes,
             prune : BOOLEAN,
             max_length_body : 1..MaxLengthBody,
             max_width : 1..MaxWidth,
             depths : DepthRanges ] :
        \/ P.max_width < P.max_length_body
        \/ P.max_length_body = 1 /\ P.max_width = 1}

Context(depth) == [ver |-> version, depth |-> depth, P |-> params, ord |-> gen.ord]

\* a clause without the tokens of its assertions: what two runs can be
\* compared by
Triple(a) == <<a.lhs, a.predicate, a.rhs>>

BodySignature(b) ==
    UNION {{<<b.distances_reverse[a], Triple(endpoint), Triple(a)>> :
              a \in b.connections[endpoint]} : endpoint \in DOMAIN b.connections}

Signature(clause) ==
    [ head |-> Triple(clause.head), body |-> BodySignature(clause.body),
      support |-> clause.support, confidence |-> clause.confidence ]

\* the clauses of a set that pruning leaves in the forest
Survivors(clauses) ==
    {Signature(c) : c \in {x \in clauses : ~(params.prune /\ x._prune)}}

\* the head of the loop over a type's level: `for clause in ...get(depth)`
BeginType(gn, f, depth, ti) ==
    IF GetRaises(f[gn.types[ti]], depth)
    THEN [gn EXCEPT !.pc = "IndexError", !.depth = depth, !.ti = ti]
    ELSE [gn EXCEPT !.pc = "loop", !.depth = depth, !.ti = ti,
                    !.todo = Iter(TreeGet(f[gn.types[ti]], depth), gn.ord),
                    !.derivatives = {}, !.prune_set = {}]

InitGen ==
    /\ g \in GenGraphs
    /\ version \in Versions
    /\ params \in ParamSpace
    /\ body = DepthZeroBody("Person")
    /\ head = NoHead
    /\ eval = NoEval
    /\ forest = NoForest
    /\ \E o \in Orders : gen = [NoGen EXCEPT !.pc = "init", !.ord = o]
    /\ mp = NoPool
    /\ hist = NoHist

Planted(f, gn) ==
    /\ forest' = f
    /\ gen' = IF gn.types = <<>> THEN [gn EXCEPT !.pc = "finish"]
              ELSE BeginType(gn, f, 0, 1)
    /\ hist' = [NoHist EXCEPT !.step = "init",
                              !.added = {Key(c) : c \in ForestClauses(f)}]

Seeded(f) == Planted(f, [gen EXCEPT !.types = Iter(ForestTypes(f), gen.ord)])

\* generate up to its loops: the cache and init_generation_forest
GenerateInit ==
    /\ gen.pc = "init"
    /\ Seeded(init_generation_forest(version, params))
    /\ UNCHANGED <<g, version, params, metricsVars, mp>>

\* generate, the test of mode[0] at depth 0
ModeSkipped(clause, depth, mode) ==
    /\ depth = 0
    /\ mode[1] # mode[2]
    /\ \/ mode[1] = "A" /\ IsTypeVariable(clause.head.rhs)
       \/ mode[1] = "T" /\ ~IsTypeVariable(clause.head.rhs)

\* generate_depth_mp / the body of generate's loop: the pendant incidents
pendant_incidents(clause, depth) ==
    {assertion \in clause.body.distances[depth] : assertion.rhs.kind = "otv"}

\* clause._satisfy_body = None; clause._satisfy_full = None
Cleared(clause) ==
    [clause EXCEPT !._satisfy_body = None, !._satisfy_full = None]

\* a clause of a level replaced by its state after a write to its fields
Write(f, ctype, depth, clause, written) ==
    [f EXCEPT ![ctype]._tree[depth + 1] = (@ \ {clause}) \cup {written}]

\* generate, a clause skipped for its mode: mode_skip_dict[ctype].add(clause)
SkipClause(gn, ctype, clause) ==
    [gn EXCEPT !.todo = Tail(@),
               !.mode_skip_dict = IF ctype \in DOMAIN @
                                  THEN [@ EXCEPT ![ctype] = @ \cup {clause}]
                                  ELSE (ctype :> {clause}) @@ @]

\* generate, a clause explored (or too long to be): its derivatives are
\* gathered, its transient sets cleared and its mark looked at
TakeClause(gn, clause, depth, res) ==
    [gn EXCEPT !.todo = Tail(@),
               !.derivatives = @ \cup res.clauses,
               !.prune_set = IF params.prune /\ depth > 0 /\ clause._prune
                             THEN @ \cup {Cleared(clause)} ELSE @]

\* what a pass over a clause leaves on record: res is what explore returned
\* under the order of the run, other what it returns under the other order
Passed(h, clause, explored, res, other) ==
    [h EXCEPT !.step = "clause",
              !.explored = IF explored THEN @ \cup {Key(clause)} ELSE @,
              !.calls = res.calls,
              !.tops = res.tops, !.recursions = res.recursions,
              !.nested = res.nested,
              !.pruned = {}, !.dropped = {}, !.added = {},
              !.alt = IF @ # {} \/ Survivors(res.clauses) = Survivors(other.clauses)
                      THEN @
                      ELSE {[main |-> Survivors(res.clauses),
                             other |-> Survivors(other.clauses)]}]

\* explore on a clause of the level, under either order of iteration
ExploreClause(clause, depth) ==
    [o \in Orders |->
        IF BodyLen(clause.body) < params.max_length_body
        THEN explore([Context(depth) EXCEPT !.ord = o], forest, clause,
                     pendant_incidents(clause, depth))
        ELSE Unexplored]

PassClause(clause, ctype, depth, both) ==
    /\ forest' = Write(forest, ctype, depth, clause, Cleared(clause))
    /\ gen' = TakeClause(gen, clause, depth, both[gen.ord])
    /\ hist' = Passed(hist, clause, BodyLen(clause.body) < params.max_length_body,
                      both[gen.ord], both[Flip(gen.ord)])

\* generate, one pass of the loop over the clauses of a level
GenerateClause ==
    /\ gen.pc = "loop"
    /\ gen.todo # <<>>
    /\ IF ModeSkipped(Head(gen.todo), gen.depth, params.mode)
       THEN /\ gen' = SkipClause(gen, gen.types[gen.ti], Head(gen.todo))
            /\ hist' = [hist EXCEPT !.step = "skip", !.calls = {}, !.pruned = {},
                                    !.dropped = {}, !.added = {},
                                    !.tops = {}, !.recursions = {},
                                    !.nested = {}]
            /\ UNCHANGED forest
       ELSE PassClause(Head(gen.todo), gen.types[gen.ti], gen.depth,
                       ExploreClause(Head(gen.todo), gen.depth))
    /\ UNCHANGED <<g, version, params, metricsVars, mp>>

\* generate, after the loop over the clauses of a level: pruning
Pruned(f, gn, ctype, depth) ==
    IF params.prune THEN [f EXCEPT ![ctype] = TreePrune(@, gn.prune_set, depth)]
    ELSE f

\* generate as it would be were the derivatives of the last depth kept
NoneDropped(gn, depth) == {}

\* generate, `prune children in last iteration`: the derivatives dropped
Dropped(gn, depth) ==
    IF params.prune /\ depth = params.depths.stop - 1
    THEN {d \in gn.derivatives : d._prune} ELSE {}

\* generate as it would be were depth 0 cleared with the other depths that
\* are not asked for
ClearedLevelFromZero(f, ctype, depth) ==
    IF ~InDepths(depth, params.depths)
    THEN [f EXCEPT ![ctype] = TreeClear(@, depth)] ELSE f

\* generate, a depth that is not asked for is cleared
ClearedLevel(f, ctype, depth) ==
    IF depth > 0 /\ ~InDepths(depth, params.depths)
    THEN [f EXCEPT ![ctype] = TreeClear(@, depth)] ELSE f

\* generate as it would be were its loops nested the other way: a type's
\* tree is grown to the last depth before the next type is begun
OnwardDepthFirst(gn, f, depth) ==
    IF depth + 1 < params.depths.stop THEN BeginType(gn, f, depth + 1, gn.ti)
    ELSE IF gn.ti < Len(gn.types) THEN BeginType(gn, f, 0, gn.ti + 1)
    ELSE [gn EXCEPT !.pc = "finish"]

\* generate, on to the next type, the next depth or the end of the loops
Onward(gn, f, depth) ==
    IF gn.ti < Len(gn.types) THEN BeginType(gn, f, depth, gn.ti + 1)
    ELSE IF depth + 1 < params.depths.stop THEN BeginType(gn, f, depth + 1, 1)
    ELSE [gn EXCEPT !.pc = "finish"]

\* generate as it would be were update_tree given the depth of the parents
UpdatedAmongParents(gn, ctype, depth, f1, f2, dropped) ==
    [ forest |-> [f2 EXCEPT ![ctype] = TreeUpdate(@, gn.derivatives \ dropped, depth)],
      gen |-> [gn EXCEPT !.derivatives = @ \ dropped,
                         !.npruned = @ + (IF params.prune THEN Cardinality(gn.prune_set) ELSE 0)
                                       + Cardinality(dropped)
                                       + (f1[ctype].size - f2[ctype].size)],
      pruned |-> IF params.prune THEN gn.prune_set ELSE {},
      dropped |-> dropped ]

\* generate, the end of a type's level once the forest was pruned to f1 and
\* cleared to f2: update_tree, and the count of what was removed
Updated(gn, ctype, depth, f1, f2, dropped) ==
    [ forest |-> [f2 EXCEPT ![ctype] = TreeUpdate(@, gn.derivatives \ dropped, depth + 1)],
      gen |-> [gn EXCEPT !.derivatives = @ \ dropped,
                         !.npruned = @ + (IF params.prune THEN Cardinality(gn.prune_set) ELSE 0)
                                       + Cardinality(dropped)
                                       + (f1[ctype].size - f2[ctype].size)],
      pruned |-> IF params.prune THEN gn.prune_set ELSE {},
      dropped |-> dropped ]

EndOfLevel(f, gn, ctype, depth, f1) ==
    Updated(gn, ctype, depth, f1, ClearedLevel(f1, ctype, depth), Dropped(gn, depth))

TypeEnd(r, depth) ==
    /\ forest' = r.forest
    /\ gen' = Onward(r.gen, r.forest, depth)
    /\ hist' = [hist EXCEPT !.step = "type_end", !.calls = {},
                            !.tops = {}, !.recursions = {}, !.nested = {},
                            !.pruned = {Key(c) : c \in r.pruned},
                            !.dropped = {Key(c) : c \in r.dropped},
                            !.added = {Key(c) : c \in r.gen.derivatives}]

\* generate, after the loop over the clauses of a level: pruning, the
\* derivatives of the last depth, clearing, update_tree; then on to the next
\* type, the next depth or the end of the loops
GenerateTypeEnd ==
    /\ gen.pc = "loop"
    /\ gen.todo = <<>>
    /\ TypeEnd(EndOfLevel(forest, gen, gen.types[gen.ti], gen.depth,
                          Pruned(forest, gen, gen.types[gen.ti], gen.depth)),
               gen.depth)
    /\ UNCHANGED <<g, version, params, metricsVars, mp>>

\* generate as it would be were the clauses skipped for their mode left in
\* the forest
SkipsKept(f, gn) == f

\* generate, after the loops: the clauses skipped for their mode are pruned
SkipsPruned(f, gn) ==
    [t \in DOMAIN f |->
        IF t \in DOMAIN gn.mode_skip_dict
        THEN TreePrune(f[t], gn.mode_skip_dict[t], 0) ELSE f[t]]

\* generate, the test after the loops: `if 0 not in depths`, to which the
\* sequential generate of the later engine adds
\* `and depths.stop-depths.start > 0`
ClearsDepthZero ==
    /\ ~InDepths(0, params.depths)
    /\ (version = "v2" /\ mp.nproc = 0)
          => params.depths.stop - params.depths.start > 0

\* generate, after the loops: depth 0 is cleared if it is not asked for
AfterLoops(f1) ==
    IF ClearsDepthZero
    THEN [t \in DOMAIN f1 |-> TreeClear(f1[t], 0)]
    ELSE f1

Finish(f1) ==
    /\ forest' = AfterLoops(f1)
    /\ gen' = [gen EXCEPT !.pc = "done",
                          !.npruned = IF ClearsDepthZero
                                      THEN @ + Cardinality(ForestLevel(f1, 0))
                                      ELSE @]
    /\ hist' = [hist EXCEPT !.step = "finish", !.calls = {},
                            !.tops = {}, !.recursions = {}, !.nested = {},
                            !.pruned = {}, !.dropped = {}, !.added = {}]

GenerateFinish ==
    /\ gen.pc = "finish"
    /\ mp.nproc = 0
    /\ Finish(SkipsPruned(forest, gen))
    /\ UNCHANGED <<g, version, params, metricsVars, mp>>

NextGen == GenerateInit \/ GenerateClause \/ GenerateTypeEnd \/ GenerateFinish

SpecGen == InitGen /\ [][NextGen]_vars


-----------------------------------------------------------------------------
(* generate over graphs in which a clause comes to hold two pendant         *)
(* incidents of one depth: a Person with a name, an acquaintance and a      *)
(* home, so that a head on one predicate leaves two others for the body     *)

\* the edges every such graph holds
WideCore ==
    { <<"e1", "name", "l1">>, <<"e1", "knows", "e2">>, <<"e1", "lives", "c1">>,
      <<"c1", "near", "c2">> }

\* what the acquaintance may have
WideExtra ==
    { <<"e2", "name", "l1">>, <<"e2", "knows", "e3">>, <<"e2", "lives", "c1">> }

WideGraphs == {WideCore \cup X : X \in SUBSET WideExtra}

\* the arguments of generate: bodies long enough for a clause with two
\* incidents to be extended and explored again
WideParamSpace ==
    [ min_support : {1},
      min_confidence : {1},
      mode : {<<"T", "T">>},
      prune : BOOLEAN,
      max_length_body : 4..MaxWideBody,
      max_width : 1..MaxWidth,
      depths : {[start |-> 0, stop |-> 2]} ]

InitWide ==
    /\ g \in WideGraphs
    /\ version \in Versions
    /\ params \in WideParamSpace
    /\ body = DepthZeroBody("Person")
    /\ head = NoHead
    /\ eval = NoEval
    /\ forest = NoForest
    /\ \E o \in Orders : gen = [NoGen EXCEPT !.pc = "init", !.ord = o]
    /\ mp = NoPool
    /\ hist = NoHist

SpecWide == InitWide /\ [][NextGen]_vars

-----------------------------------------------------------------------------
(* generate with no limit on the length of a body nor on the number of      *)
(* extensions of one endpoint: both limits are set beyond what any body     *)
(* over these graphs can reach, so that neither test ever ends a recursion  *)

TermParamSpace ==
    [ min_support : {1},
      min_confidence : {1},
      mode : Modes,
      prune : BOOLEAN,
      max_length_body : {Unbounded},
      max_width : {Unbounded},
      depths : DepthRanges ]

InitTerm ==
    /\ g \in WideGraphs
    /\ version \in Versions
    /\ params \in TermParamSpace
    /\ body = DepthZeroBody("Person")
    /\ head = NoHead
    /\ eval = NoEval
    /\ forest = NoForest
    /\ \E o \in Orders : gen = [NoGen EXCEPT !.pc = "init", !.ord = o]
    /\ mp = NoPool
    /\ hist = NoHist

\* generate has not returned, nor been left by an exception
Running == gen.pc \notin {"done", "IndexError"}

\* generate moves on: it leaves the position it is at, be it by returning
\* or by any other step
Moves == Running /\ (gen' = [gen EXCEPT !.pc = "done"] \/ gen' # gen)

\* generate is one thread of control that nothing holds up: while it has not
\* returned it moves on
SpecTerm == InitTerm /\ [][NextGen]_vars /\ WF_gen(Moves)

-----------------------------------------------------------------------------
(* generate over ranges of depths that begin beyond depth 1, and over empty *)
(* ones: range(start, stop) with start = stop                               *)

DeepRanges ==
    {r \in [start : 0..MaxDeep, stop : 1..MaxDeep] : r.start <= r.stop}

DeepParamSpace ==
    [ min_support : {1},
      min_confidence : {1},
      mode : {<<"T", "T">>},
      prune : BOOLEAN,
      max_length_body : {MaxDeep + 1},
      max_width : 1..MaxWidth,
      depths : DeepRanges ]

InitDeep ==
    /\ g \in WideGraphs
    /\ version \in Versions
    /\ params \in DeepParamSpace
    /\ body = DepthZeroBody("Person")
    /\ head = NoHead
    /\ eval = NoEval
    /\ forest = NoForest
    /\ \E o \in Orders : gen = [NoGen EXCEPT !.pc = "init", !.ord = o]
    /\ mp = NoPool
    /\ hist = NoHist

SpecDeep == InitDeep /\ [][NextGen]_vars

-----------------------------------------------------------------------------
(* generate_mp: the loops of generate, with the clauses of a type's level   *)
(* explored by the workers of a pool.  pool.imap_unordered cuts the tasks   *)
(* into chunks; a worker pickles and explores the clauses of a chunk, in    *)
(* an iteration order of its own, and generate_mp gathers the results in    *)
(* the order they arrive.                                                   *)

InitPool ==
    /\ g \in GenGraphs
    /\ version = "v2"
    /\ params \in ParamSpace
    /\ body = DepthZeroBody("Person")
    /\ head = NoHead
    /\ eval = NoEval
    /\ forest = NoForest
    /\ \E o \in Orders : gen = [NoGen EXCEPT !.pc = "mp_init", !.ord = o]
    /\ \E nproc \in 1..MaxProc : mp = [NoPool EXCEPT !.nproc = nproc]
    /\ hist = NoHist

\* the head of generate_mp's loop over a type's level: the loop that counts
Pooled(gn) == IF gn.pc = "loop" THEN [gn EXCEPT !.pc = "count"] ELSE gn

PoolPlanted(f, gn) ==
    /\ forest' = f
    /\ gen' = IF gn.types = <<>> THEN [gn EXCEPT !.pc = "finish"]
              ELSE Pooled(BeginType(gn, f, 0, 1))
    /\ hist' = [NoHist EXCEPT !.step = "init",
                              !.added = {Key(c) : c \in ForestClauses(f)}]

PoolSeeded(f) == PoolPlanted(f, [gen EXCEPT !.types = Iter(ForestTypes(f), gen.ord)])

\* generate_mp up to its loops: the cache and init_generation_forest_mp,
\* whose trees are planted in the order the workers return them
GenerateMPInit ==
    /\ gen.pc = "mp_init"
    /\ PoolSeeded(init_generation_forest(version, params))
    /\ UNCHANGED <<g, version, params, metricsVars, mp>>

\* ceil(n / d)
Ceil(n, d) == (n + d - 1) \div d

\* chunksize=chunksize if chunksize > 1 else 2
ChunkSize(nclauses, nproc) ==
    IF Ceil(nclauses, nproc) > 1 THEN Ceil(nclauses, nproc) ELSE 2

\* the tasks of an imap_unordered, cut into chunks in the order of iteration
RECURSIVE Chunks(_, _)
Chunks(tasks, chunksize) ==
    IF tasks = <<>> THEN <<>>
    ELSE IF Len(tasks) <= chunksize THEN <<tasks>>
    ELSE <<SubSeq(tasks, 1, chunksize)>>
         \o Chunks(SubSeq(tasks, chunksize + 1, Len(tasks)), chunksize)

\* generate_mp, the loop that counts: the clauses it counts
Counted(todo, depth) ==
    SelectSeq(todo, LAMBDA c : /\ ~ModeSkipped(c, depth, params.mode)
                               /\ (depth = 0 \/ BodyLen(c.body) < params.max_length_body))

\* generate_mp, the loop that counts: mode_skip_dict after it
ModeSkips(gn, ctype, todo, depth) ==
    IF depth = 0 /\ todo # <<>>
    THEN (ctype :> ((IF ctype \in DOMAIN gn.mode_skip_dict
                     THEN gn.mode_skip_dict[ctype] ELSE {})
                    \cup {todo[i] : i \in {j \in 1..Len(todo) :
                                             ModeSkipped(todo[j], depth, params.mode)}}))
         @@ gn.mode_skip_dict
    ELSE gn.mode_skip_dict

\* the inputs of generate_depth_mp that imap_unordered is given
Tasks(todo, ctype, depth) ==
    [i \in 1..Len(todo) |-> [ctype |-> ctype, depth |-> depth, clause |-> todo[i]]]

Eligible(todo, skip_set) ==
    SelectSeq(todo, LAMBDA c : /\ c \notin skip_set
                               /\ BodyLen(c.body) < params.max_length_body)

Submitted(gn, ctype, depth, nclauses, skips) ==
    /\ gen' = [gn EXCEPT !.pc = "wait", !.todo = <<>>, !.mode_skip_dict = skips]
    /\ mp' = [mp EXCEPT
                !.queue = IF nclauses >= 1
                          THEN Chunks(Tasks(Eligible(gn.todo, skips[ctype]), ctype, depth),
                                      ChunkSize(nclauses, mp.nproc))
                          ELSE <<>>,
                !.results = {}, !.handed = {}]
    /\ hist' = [hist EXCEPT !.step = "count", !.calls = {}, !.pruned = {},
                            !.dropped = {}, !.added = {}]

\* generate_mp, the loop that counts and the call of imap_unordered
GenerateMPCount ==
    /\ gen.pc = "count"
    /\ Submitted(gen, gen.types[gen.ti], gen.depth,
                 Len(Counted(gen.todo, gen.depth)),
                 ModeSkips(gen, gen.types[gen.ti], gen.todo, gen.depth))
    /\ UNCHANGED <<g, version, params, metricsVars, forest>>


\* the clause of a task as a worker finds it when the task is pickled for it
Handed(f, task) ==
    IF GetRaises(f[task.ctype], task.depth)
    THEN [task |-> task, present |-> FALSE, cleared |-> FALSE]
    ELSE IF task.clause \in TreeGet(f[task.ctype], task.depth)
    THEN [task |-> task, present |-> TRUE, cleared |-> FALSE]
    ELSE [task |-> task,
          present |-> Cleared(task.clause) \in TreeGet(f[task.ctype], task.depth),
          cleared |-> TRUE]

\* generate_depth_mp on a clause: explore from its pendant incidents, under
\* either order of iteration; explore raises on a clause whose transient
\* sets are gone
Worked(f, h) ==
    [o \in Orders |->
        [ clause |-> h.task.clause,
          clauses |-> IF h.present /\ ~h.cleared
                      THEN explore([Context(h.task.depth) EXCEPT !.ord = o], f,
                                   h.task.clause,
                                   pendant_incidents(h.task.clause, h.task.depth)).clauses
                      ELSE {} ]]

\* the tasks on which a worker, under its order of iteration, returns other
\* surviving clauses than explore returns under the order of the process
\* that runs generate
Departures(works, ord) ==
    {[main |-> Survivors(w[ord].clauses), other |-> Survivors(w[gen.ord].clauses)] :
        w \in {x \in works : Survivors(x[ord].clauses) # Survivors(x[gen.ord].clauses)}}

Returned(handed, ord, works) ==
    /\ mp' = [mp EXCEPT !.queue = Tail(@),
                        !.results = @ \cup {w[ord] : w \in works},
                        !.handed = @ \cup handed]
    /\ hist' = [hist EXCEPT !.step = "worker",
                            !.explored = @ \cup {Key(h.task.clause) : h \in handed},
                            !.alt = IF @ # {} THEN @ ELSE Departures(works, ord)]

Gathered(handed, ord) == Returned(handed, ord, {Worked(forest, h) : h \in handed})

\* a worker of the pool takes the next chunk and runs generate_depth_mp on
\* each of its tasks
GenerateDepthMP ==
    /\ mp.queue # <<>>
    /\ \E ord \in Orders :
         Gathered({Handed(forest, Head(mp.queue)[i]) : i \in 1..Len(Head(mp.queue))}, ord)
    /\ UNCHANGED <<g, version, params, metricsVars, forest, gen>>

\* generate_mp, one pass of the loop over imap_unordered:
\* derivatives.update(clause_derivatives)
GenerateMPCollect ==
    /\ gen.pc = "wait"
    /\ \E r \in mp.results :
         /\ gen' = [gen EXCEPT !.derivatives = @ \cup r.clauses]
         /\ mp' = [mp EXCEPT !.results = @ \ {r}]
    /\ hist' = [hist EXCEPT !.step = "collect"]
    /\ UNCHANGED <<g, version, params, metricsVars, forest>>

\* generate_mp as it would be were the results of the pool not waited for
NoneAwaited(pool) == TRUE

\* the loop over imap_unordered ends when every task has returned and every
\* result has been gathered
AllReturned(pool) == pool.queue = <<>> /\ pool.results = {}

\* generate_mp, the loop after the pool's: every clause of the level loses
\* its transient sets
ClearedAll(f, ctype, depth) ==
    [f EXCEPT ![ctype]._tree[depth + 1] = {Cleared(c) : c \in @}]

\* generate_mp, the loop after the pool's: the marked clauses; a clause
\* skipped for its mode is the object the forest holds
Swept(gn, f, ctype, depth) ==
    [gn EXCEPT !.prune_set = IF params.prune /\ depth > 0
                             THEN {c \in TreeGet(f[ctype], depth) : c._prune}
                             ELSE {},
               !.mode_skip_dict = IF depth = 0
                                  THEN [@ EXCEPT ![ctype] = {Cleared(c) : c \in @}]
                                  ELSE @]

PoolTypeEnd(r, depth) ==
    /\ forest' = r.forest
    /\ gen' = Pooled(Onward(r.gen, r.forest, depth))
    /\ hist' = [hist EXCEPT !.step = "type_end", !.calls = {},
                            !.pruned = {Key(c) : c \in r.pruned},
                            !.dropped = {Key(c) : c \in r.dropped},
                            !.added = {Key(c) : c \in r.gen.derivatives}]

PoolEndOfLevel(gn, f, ctype, depth) ==
    PoolTypeEnd(EndOfLevel(f, gn, ctype, depth, Pruned(f, gn, ctype, depth)), depth)

PoolSwept(f, ctype, depth) ==
    PoolEndOfLevel(Swept(gen, f, ctype, depth), f, ctype, depth)

\* generate_mp, after the loop over imap_unordered: clearing, pruning, the
\* derivatives of the last depth, update_tree; then on to the next type, the
\* next depth or the end of the loops
GenerateMPTypeEnd ==
    /\ gen.pc = "wait"
    /\ AllReturned(mp)
    /\ PoolSwept(ClearedAll(forest, gen.types[gen.ti], gen.depth),
                 gen.types[gen.ti], gen.depth)
    /\ UNCHANGED <<g, version, params, metricsVars, mp>>

\* generate_mp, after the loops: as generate
GenerateMPFinish ==
    /\ gen.pc = "finish"
    /\ mp.nproc > 0
    /\ Finish(SkipsPruned(forest, gen))
    /\ UNCHANGED <<g, version, params, metricsVars, mp>>

NextPool ==
    \/ GenerateMPInit
    \/ GenerateMPCount
    \/ GenerateDepthMP
    \/ GenerateMPCollect
    \/ GenerateMPTypeEnd
    \/ GenerateMPFinish

SpecPool == InitPool /\ [][NextPool]_vars


\* generate and generate_mp in one specification
InitSearch == InitGen \/ InitPool

NextSearch == NextGen \/ NextPool

SpecSearch == InitSearch /\ [][NextSearch]_vars

-----------------------------------------------------------------------------
(* The GenerationTree on its own: add, update, rmv, prune, clear and get    *)
(* called at any depth on the tree of one type.  `eval` holds the last call: *)
(* its depth, the tree before it, what the call raised and, of get, what    *)
(* the first step of the iteration over the generator it returned raised.   *)

\* the clauses the calls are given: the depth-0 clauses of Person
TreeClauses ==
    init_generation_tree("v1", "Person",
        [min_support |-> 1, min_confidence |-> 1, mode |-> <<"A", "T">>])

InitTree ==
    /\ g = {<<"e1", "knows", "e2">>, <<"e1", "knows", "e3">>}
    /\ version = "v1"
    /\ params = NoParams
    /\ body = DepthZeroBody("Person")
    /\ head = NoHead
    /\ eval = NoEval
    /\ forest = Plant(NoForest, "Person", GenerationTree)
    /\ gen = NoGen
    /\ mp = NoPool
    /\ hist = NoHist

\* what a call leaves on record
Called(op, depth, given, before, raised, iterated) ==
    [ op |-> op, depth |-> depth, given |-> given, before |-> before,
      raised |-> raised, iterated |-> iterated ]

\* a call on the tree that raises err, or leaves the tree as `after`
TreeCall(op, depth, given, err, after) ==
    /\ forest' = IF err = "none" THEN [forest EXCEPT !["Person"] = after] ELSE forest
    /\ eval' = Called(op, depth, given, forest["Person"], err, "none")
    /\ UNCHANGED <<g, version, params, body, head, gen, mp, hist>>

\* GenerationTree.add(clause, depth)
TreeAddCall ==
    /\ forest["Person"].size < MaxTreeSize
    /\ \E depth \in 0..MaxTreeDepth, clause \in TreeClauses :
         TreeCall("add", depth, {clause},
                  IF AddRaises(forest["Person"], depth) THEN "IndexError" ELSE "none",
                  TreeAdd(forest["Person"], clause, depth))

\* GenerationTree.update(clauses, depth)
TreeUpdateCall ==
    \E depth \in 0..MaxTreeDepth, clauses \in SUBSET TreeClauses :
       /\ forest["Person"].size + Cardinality(clauses) <= MaxTreeSize
       /\ TreeCall("update", depth, clauses,
                   IF AddRaises(forest["Person"], depth) THEN "IndexError" ELSE "none",
                   TreeUpdate(forest["Person"], clauses, depth))

\* what GenerationTree.rmv and prune raise: the depth is tested before the
\* clause is looked for, and prune tests nothing itself
RmvRaises(tree, clauses, depth) ==
    IF clauses = {} THEN "none"
    ELSE IF GetRaises(tree, depth) THEN "IndexError"
    ELSE IF clauses \subseteq TreeGet(tree, depth) THEN "none"
    ELSE "KeyError"

\* GenerationTree.rmv(clause, depth), the clause in the level or the depth
\* out of reach
TreeRmvCall ==
    \E depth \in 0..MaxTreeDepth, clause \in TreeClauses :
       /\ RmvRaises(forest["Person"], {clause}, depth) # "KeyError"
       /\ TreeCall("rmv", depth, {clause},
                   RmvRaises(forest["Person"], {clause}, depth),
                   TreePrune(forest["Person"], {clause}, depth))

\* GenerationTree.prune(clauses, depth): rmv on every clause, one by one
TreePruneCall ==
    \E depth \in 0..MaxTreeDepth, clauses \in SUBSET TreeClauses :
       /\ RmvRaises(forest["Person"], clauses, depth) # "KeyError"
       /\ TreeCall("prune", depth, clauses,
                   RmvRaises(forest["Person"], clauses, depth),
                   IF clauses = {} THEN forest["Person"]
                   ELSE TreePrune(forest["Person"], clauses, depth))

\* GenerationTree.clear(depth)
TreeClearCall ==
    \E depth \in 0..MaxTreeDepth :
       TreeCall("clear", depth, {},
                IF GetRaises(forest["Person"], depth) THEN "IndexError" ELSE "none",
                TreeClear(forest["Person"], depth))

\* GenerationTree.get(depth), depth >= 0: a generator function, so the call
\* runs none of its body and hands back a generator; the test of the depth
\* runs when the generator is first iterated
TreeGetCall ==
    /\ \E depth \in 0..MaxTreeDepth :
         eval' = Called("get", depth, {}, forest["Person"], "none",
                        IF GetRaises(forest["Person"], depth) THEN "IndexError"
                        ELSE "none")
    /\ UNCHANGED <<g, version, params, body, head, forest, gen, mp, hist>>

NextTree ==
    \/ TreeAddCall
    \/ TreeUpdateCall
    \/ TreeRmvCall
    \/ TreePruneCall
    \/ TreeClearCall
    \/ TreeGetCall

SpecTree == InitTree /\ [][NextTree]_vars

-----------------------------------------------------------------------------
(* Properties of the engine                                                 *)

\* the clauses of a forest below depth 0
Deep(f) ==
    UNION {UNION {f[t]._tree[d] : d \in 2..Len(f[t]._tree)} : t \in DOMAIN f}

\* a probability <<numerator, denominator>> within 0..1
InUnit(q) == 0 <= q[1] /\ q[1] <= q[2]

\* C1: every clause in the forest has support >= min_support and
\* confidence >= min_confidence
C1_Thresholds ==
    \A c \in ForestClauses(forest) :
        c.support >= params.min_support /\ c.confidence >= params.min_confidence

\* C2: a top-level call of support_of made by extend that does not return
\* the sentinel returns a support no larger than the parent's and a domain
\* within the parent's
C2_Monotonicity ==
    \A call \in hist.calls :
        call.support # -1 =>
            /\ call.support <= call.parent_support
            /\ call.domain \subseteq call.parent_domain

\* a call of extend's that narrowed the parent's domain without emptying it
C2_Narrowed ==
    \E call \in hist.calls :
        /\ call.support # -1
        /\ call.support < call.parent_support
        /\ call.domain # {}
        /\ call.domain # call.parent_domain

\* C3: confidence_of returns a count no larger than the domain and a
\* satisfying set within the domain
C3_ConfidenceBound ==
    eval.op = "confidence_of" =>
        /\ eval.first.support <= Cardinality(eval.dom)
        /\ eval.first.domain \subseteq eval.dom

\* C4: every clause of the forest generate returns has its domain and its
\* range probability within 0..1
C4_ProbabilityRange ==
    gen.pc = "done" =>
        \A c \in ForestClauses(forest) :
            InUnit(c.domain_probability) /\ InUnit(c.range_probability)

Expanding ==
    \/ gen.pc = "loop" /\ gen.todo # <<>>
    \/ gen.pc = "count"
    \/ gen.pc = "wait" /\ (mp.queue # <<>> \/ mp.results # {})

\* a clause of a depth that generate hands to explore
Expandable(c, depth) ==
    ~ModeSkipped(c, depth, params.mode) /\ BodyLen(c.body) < params.max_length_body

\* C6 as stated: while a clause of depth d of any type has not finished
\* expansion, no tree holds a clause at depth d+1
C6_NoneAddedBeforeAllExpanded ==
    Expanding => ForestLevel(forest, gen.depth + 1) = {}

\* C6: while the level of a type at depth d is expanded, the tree of that
\* type holds no clause at depth d+1, and every clause of depth d-1 of every
\* type has been expanded
C6_DepthBarrier ==
    gen.pc \in {"loop", "count", "wait"} =>
        /\ \/ GetRaises(forest[gen.types[gen.ti]], gen.depth + 1)
           \/ TreeGet(forest[gen.types[gen.ti]], gen.depth + 1) = {}
        /\ gen.depth > 0 =>
              \A c \in ForestLevel(forest, gen.depth - 1) :
                  Expandable(c, gen.depth - 1) => Key(c) \in hist.explored

\* a later type is expanded at a depth below 0 while the tree of an earlier
\* type holds clauses at the next depth
C6_LaterTypeExpanded ==
    /\ Expanding
    /\ gen.ti > 1
    /\ gen.depth > 0
    /\ hist.explored # {}
    /\ ~GetRaises(forest[gen.types[1]], gen.depth + 1)
    /\ TreeGet(forest[gen.types[1]], gen.depth + 1) # {}

C8_Determinism ==
    (gen.pc = "done" /\ params.depths.stop = 1) => hist.alt = {}

\* the graph of the scenario: two of the three Persons know a Person, the
\* third knows nobody
SeedScenario ==
    /\ Cardinality({e \in Persons : \E r \in forwards("knows", e) : r \in Persons}) = 2
    /\ Cardinality({e \in Persons : forwards("knows", e) = {}}) = 1

\* C9: in the scenario, with min_support=1, the depth-0 tree of Person holds
\* a clause with head (Person, knows, ObjectTypeVariable(Person)), support 2,
\* confidence 2 and domain_probability 1.0
C9_SeedScenario ==
    ( /\ hist.step = "init"
      /\ SeedScenario
      /\ params.min_support = 1
      /\ params.min_confidence = 1
      /\ params.mode # <<"A", "A">> ) =>
        /\ "Person" \in ForestTypes(forest)
        /\ \E c \in TreeGet(forest["Person"], 0) :
              /\ c.head = Assertion("Person", "knows", ObjectTypeVariable("Person"), 0)
              /\ c.support = 2
              /\ c.confidence = 2
              /\ c.domain_probability[1] = c.domain_probability[2]

\* C10: two calls in a row of support_of on one domain set return the same
\* pair
C10_IdempotentSupport ==
    eval.op = "support_of" =>
        /\ eval.first.support = eval.second.support
        /\ eval.first.domain = eval.second.domain

\* C11: the top-level call of support_of on a body with a non-identity
\* assertion returns the sentinel (-1, {}) or a pair (s, D) with
\* s = |D| >= min_support
C11_Sentinel ==
    (eval.op = "support_of" /\ eval.root = body.identity /\ BodyLen(body) >= 2) =>
        \/ eval.first.support = -1 /\ eval.first.domain = {}
        \/ /\ eval.first.support = Cardinality(eval.first.domain)
           /\ eval.first.support >= eval.min_support

\* the right-hand side a letter of the mode allows
ModeAllows(letter, rhs) ==
    /\ letter = "A" => ~IsTypeVariable(rhs)
    /\ letter = "T" => IsTypeVariable(rhs)

\* C12: in the forest generate returns, every head has the right-hand side
\* mode[0] allows and every non-identity assertion of a body the right-hand
\* side mode[1] allows
C12_ModeRestriction ==
    (gen.pc = "done" /\ mp.nproc = 0) =>
        \A c \in ForestClauses(forest) :
            /\ ModeAllows(params.mode[1], c.head.rhs)
            /\ \A a \in DOMAIN c.body.connections :
                  ~IsIdentity(a) => ModeAllows(params.mode[2], a.rhs)

\* a returned forest under a mixed mode, from which clauses skipped for
\* their mode were pruned, that holds a clause with a grown body
C12_MixedModeReturned ==
    /\ gen.pc = "done"
    /\ mp.nproc = 0
    /\ params.mode[1] # params.mode[2]
    /\ \E t \in DOMAIN gen.mode_skip_dict : gen.mode_skip_dict[t] # {}
    /\ ForestLevel(forest, 0) # {}
    /\ Deep(forest) # {}

\* C14: in every clause that explore produced from a clause of depth d, no
\* pendant incident at distance d has more than max_width assertions
\* connected to it
C14_WidthBudget ==
    \A c \in gen.derivatives :
        \A pi \in c.body.distances[gen.depth] :
            Cardinality(c.body.connections[pi]) <= params.max_width

\* C19: no recursive call of explore for a new clause is given the pendant
\* incident that clause was extended from
C19_RecursionExcludesOrigin ==
    \A r \in hist.recursions : r.from \notin r.given

\* C13: every clause of the forest generate or generate_mp returns has a
\* body of at most max_length_body assertions, the identity included
C13_BodyLengthBudget ==
    gen.pc = "done" =>
        \A c \in ForestClauses(forest) : BodyLen(c.body) <= params.max_length_body

\* a returned forest with a clause that extend's recursion on width grew to
\* the full length at a depth below 0
C13_FullLengthReturned ==
    /\ gen.pc = "done"
    /\ params.max_length_body = 3
    /\ \E c \in Deep(forest) :
          /\ BodyLen(c.body) = params.max_length_body
          /\ \E a \in DOMAIN c.body.connections : Cardinality(c.body.connections[a]) >= 2

\* the candidates a body has connected to an incident, without their tokens
AddedTo(b, pi) == {Triple(a) : a \in b.connections[pi]}

\* C20: of the clauses one top-level call of extend returns, no two connect
\* the same set of candidates to the endpoint
C20_CombinationOnce ==
    \A top \in hist.tops :
        \A b1, b2 \in top.bodies :
            b1 # b2 => AddedTo(b1, top.incident) # AddedTo(b2, top.incident)

\* a call of extend that returned a clause with two candidates connected to
\* the endpoint, both of which it also returned on their own
C20_CombinationReturned ==
    \E top \in hist.tops :
        \E b \in top.bodies :
            /\ Cardinality(AddedTo(b, top.incident)) = 2
            /\ \A x \in AddedTo(b, top.incident) :
                  \E b1 \in top.bodies : AddedTo(b1, top.incident) = {x}

AssertionsOf(f) ==
    {c.head : c \in ForestClauses(f)}
    \cup UNION {DOMAIN c.body.connections : c \in ForestClauses(f)}

C17_EmptyDomainLeaf ==
    ( /\ eval.op = "support_of"
      /\ body.connections[eval.root] = {}
      /\ eval.dom = {} ) =>
        eval.first.support = 0 /\ eval.first.domain = {}

\* a leaf with a type variable, below the identity, evaluated over the empty
\* domain with the larger min_support
C17_LeafOverNothing ==
    /\ eval.op = "support_of"
    /\ ~IsIdentity(eval.root)
    /\ IsTypeVariable(eval.root.rhs)
    /\ body.connections[eval.root] = {}
    /\ eval.dom = {}
    /\ eval.min_support = MaxMinSupport

\* the last call on the tree asked for a depth beyond the height
Beyond ==
    /\ eval.op \in {"add", "update", "rmv", "prune", "clear", "get"}
    /\ IF eval.op \in {"add", "update"} THEN eval.depth > eval.before.height
       ELSE eval.depth >= eval.before.height

\* C18 as stated: every call that asks for a depth beyond the height raises
\* IndexError and leaves the tree as it was
C18_DepthErrors ==
    Beyond => eval.raised = "IndexError" /\ forest["Person"] = eval.before

\* C18: add, update, rmv and clear raise IndexError for a depth beyond the
\* height; prune raises it when it is given a clause to remove and nothing
\* when it is given none; get raises nothing when called and IndexError when
\* the generator it returns is first iterated; the tree is left as it was
C18_DepthErrorsByCall ==
    Beyond =>
        /\ forest["Person"] = eval.before
        /\ eval.op \in {"add", "update", "rmv", "clear"} => eval.raised = "IndexError"
        /\ eval.op = "prune" =>
              eval.raised = (IF eval.given = {} THEN "none" ELSE "IndexError")
        /\ eval.op = "get" => eval.raised = "none" /\ eval.iterated = "IndexError"

\* a failed update on a tree that holds clauses
C18_FailedOnGrownTree ==
    /\ Beyond
    /\ eval.op = "update"
    /\ eval.given # {}
    /\ eval.raised = "IndexError"
    /\ eval.before.height = 1
    /\ eval.before.size >= 2

\* C21: in every clause extend produced, no two assertions at one distance
\* d >= 1 of the body are equivalent, and no assertion at distance 1 is
\* equivalent to the head
C21_NoEquivalentSiblings ==
    \A c \in gen.derivatives \cup Deep(forest) :
        /\ \A d \in DOMAIN c.body.distances \ {0} :
              \A a, b \in c.body.distances[d] : a # b => ~isEquivalent(a, b)
        /\ 1 \in DOMAIN c.body.distances =>
              \A a \in c.body.distances[1] : ~isEquivalent(c.head, a)

\* a clause extend produced at depth 0 with two assertions at distance 1,
\* under a mode in which a candidate is equivalent to the head
C21_TwoAtOneDistance ==
    \E c \in gen.derivatives :
        /\ 1 \in DOMAIN c.body.distances
        /\ Cardinality(c.body.distances[1]) >= 2
        /\ IsTypeVariable(c.head.rhs)
        /\ params.mode[2] = "T"

\* C22: no recursive call of explore is given a pendant incident for which
\* extend returned nothing in the first loop of the call that makes it
C22_UnsupportedLeftOut ==
    \A r \in hist.recursions : r.failed \cap r.given = {}

\* a call of explore that found nothing for one incident and made a
\* recursive call for a clause extended from another
C22_FailedBesideSupported ==
    \E r \in hist.recursions : r.failed # {} /\ r.from \notin r.failed

Held(tree) ==
    UNION {{<<d, c>> : c \in tree._tree[d]} : d \in 1..Len(tree._tree)}

\* C24: the size of a tree is the number of clauses it holds over all its
\* levels and its height is the number of its levels, also after a clause
\* was added that its level held already
C24_SizeAndHeight ==
    \A t \in DOMAIN forest :
        /\ forest[t].height = Len(forest[t]._tree)
        /\ forest[t].size = Cardinality(Held(forest[t]))

\* the depth-0 clauses of every tree, as objects: head and body
DepthZero(f) ==
    [t \in DOMAIN f |->
        {Key(c) : c \in IF GetRaises(f[t], 0) THEN {} ELSE TreeGet(f[t], 0)}]

\* C25: from the start of the depth loop of generate or generate_mp to the
\* end of the expansion of the last depth no step changes the depth-0
\* clauses of any tree or their heads; the clauses skipped for their mode
\* are removed, and depth 0 is cleared, by the step after the loops only
C25_FrozenVocabulary ==
    [][gen.pc \in {"loop", "count", "wait", "done"} =>
          DepthZero(forest') = DepthZero(forest)]_vars

\* the loops are over with clauses below depth 0, and depth 0, which is
\* not asked for, still holds every clause, those skipped for their mode
\* included
C25_LoopsOverBeforeRemoval ==
    /\ gen.pc = "finish"
    /\ ~InDepths(0, params.depths)
    /\ Deep(forest) # {}
    /\ \E t \in DOMAIN gen.mode_skip_dict :
          /\ gen.mode_skip_dict[t] # {}
          /\ {Key(c) : c \in gen.mode_skip_dict[t]} \subseteq DepthZero(forest)[t]
    /\ {k[1] : k \in UNION {DepthZero(forest)[t] : t \in DOMAIN forest}}
          = {k[1] : k \in {x \in hist.explored : BodyLen(x[2]) = 1}}
             \cup {c.head : c \in UNION {gen.mode_skip_dict[t] : t \in DOMAIN gen.mode_skip_dict}}

\* C26: after a call of support_of the set the caller passed as candidate
\* domain has the members it had before the call, whatever the call returned
\* and whatever assertion it was rooted at
C26_DomainUntouched ==
    eval.op = "support_of" => eval.first.arg = eval.dom

\* C27: generate_mp returns the forest generate returns on the same graph
\* and parameters: no worker, whatever its number and the order of its
\* return, hands back for a clause other surviving clauses than explore
\* gives the process that runs generate
C27_PoolAsSequential ==
    (gen.pc = "done" /\ mp.nproc > 0 /\ params.depths.start = 0) => hist.alt = {}

-----------------------------------------------------------------------------
\* a recursive call that was given a proper subset of what its caller had
StrictlyFewer(r) == r.given \subseteq r.had /\ r.given # r.had

\* C28: over a finite graph and a finite range of depths generate comes to
\* its end although neither max_length_body nor max_width limits it, and on
\* the way every recursive call of extend is given strictly fewer candidates
\* than its caller was, every recursive call of explore strictly fewer
\* pendant incidents than its caller was
C28_Terminates ==
    /\ <>(~Running)
    /\ [](\A r \in hist.nested \cup hist.recursions : StrictlyFewer(r))

\* a clause whose exploration recursed both in extend and in explore, with
\* candidates and incidents left to hand on, and bodies never cut short
C28_RecursedBothWays ==
    /\ params.max_length_body = Unbounded /\ params.max_width = Unbounded
    /\ \E r \in hist.nested : r.given # {}
    /\ \E r \in hist.recursions : r.given # {}

-----------------------------------------------------------------------------
\* max(body.distances.keys())
LargestDistance(b) ==
    CHOOSE d \in DOMAIN b.distances : \A e \in DOMAIN b.distances : e <= d

\* C29: of every clause a tree holds at a depth d, during generate and after
\* it, the largest distance in the body is d; so the body has the distance
\* generate reads the pendant incidents of the clause at
C29_LargestDistanceIsDepth ==
    /\ \A t \in DOMAIN forest : \A d \in 1..Len(forest[t]._tree) :
          \A c \in forest[t]._tree[d] : LargestDistance(c.body) = d - 1
    /\ (gen.pc \in {"loop", "count"} /\ gen.todo # <<>>)
          => gen.depth \in DOMAIN Head(gen.todo).body.distances

\* generate is about to read the pendant incidents of a clause of depth 1
\* whose body holds two assertions at distance 1
C29_ReadsAtDepthOne ==
    /\ gen.pc = "loop" /\ gen.todo # <<>> /\ gen.depth = 1
    /\ Head(gen.todo) \in TreeGet(forest[gen.types[gen.ti]], 1)
    /\ Cardinality(Head(gen.todo).body.distances[1]) >= 2

-----------------------------------------------------------------------------
\* C30: once generate has returned, every tree holds clauses only at the
\* depths d with start <= d <= stop of the range it was given
C30_OnlyAskedDepths ==
    gen.pc = "done" =>
        \A t \in DOMAIN forest : \A d \in 1..Len(forest[t]._tree) :
            forest[t]._tree[d] # {} =>
                /\ params.depths.start <= d - 1
                /\ d - 1 <= params.depths.stop

=============================================================================
